---- MODULE Spec2Model ----
(***************************************************************************)
(* A model of the WebSocket connection engine of tiredkangaroo/websocket   *)
(* (src/conn.go): Conn.Read, Conn.Write, Conn.Ping and Conn.Close called   *)
(* from concurrent goroutines on one Conn, the three mutexes, the ping     *)
(* marker (pingCtx / pingCancel), the contexts a Ping waits on, and the    *)
(* underlying io.ReadWriteCloser as an inbound byte stream and an outbound *)
(* sequence of written frames.                                             *)
(***************************************************************************)
EXTENDS Integers, Sequences, FiniteSets, TLC

\* ------------------------------------------------------------------ bounds
\* Method calls made on the Conn in one run.  Every call is made by a
\* goroutine of its own, numbered in the order the calls are made: a goroutine
\* that makes a second call after its first returned behaves as a new one
\* (a sync.Mutex has no owner, and the locals of a call die with it).
MaxCalls == 2
\* Frames the peer sends in one run.
MaxIn == 1

Threads == 1..MaxCalls

\* ------------------------------------------------- message.go: MessageType
MessageText == 0
MessageBinary == 1
MessageClose == 2
MessagePing == 3
MessagePong == 4

\* A *Message that is nil (Read returning an error).
NilMessage == [Type |-> -1, Data |-> <<>>]

\* ------------------------------------------------------- context.Context
\* ctx.Err() of a context: nil until it is done, then the first cause.
ErrNone == "nil"
Canceled == "Canceled"
DeadlineExceeded == "DeadlineExceeded"

\* A nil context.Context / nil CancelFunc.
NilCtx == 0
\* The context goroutine t passes to its Ping calls (when it passes one).
CallerCtx(t) == t
\* The contexts Ping derives (context.WithTimeout / context.WithCancel).
DerivedCtxs == (MaxCalls + 1)..(MaxCalls + MaxCalls)
CtxIds == Threads \cup DerivedCtxs
\* A derived context's parent: a caller's context, or context.Background()
\* with the five second timer of context.WithTimeout.
Background == 0

VARIABLES
    \* Conn
    closed,       \* c.closed
    rmx,          \* c.rmx: 0 unlocked, else the goroutine that locked it
    wmx,          \* c.wmx
    pingMx,       \* c.pingMx
    pingCtx,      \* c.pingCtx: NilCtx or a derived context
    pingCancel,   \* c.pingCancel: NilCtx or the context it cancels
    \* c.underlying
    inbound,      \* bytes the peer sent that no Read consumed yet
    outbound,     \* frames handed to underlying.Write, in order
    uclosed,      \* underlying.Close() was called
    sent,         \* number of frames the peer sent
    \* contexts
    ctxErr,       \* ctx.Err() of every context
    ctxParent,    \* parent of every derived context
    nextCtx,      \* the next derived context to allocate
    \* goroutines
    pc,           \* where each goroutine stands
    cur,          \* the method of its current (or last) call
    ccaller,      \* who called Close: "top" or "Read"
    wcaller,      \* who called Write: "top", "Read" or "Ping"
    wmsg,         \* Write's argument
    header,       \* Read's header buffer
    message,      \* Read's message
    payloadLength,\* Read's payloadLength
    maskKey,      \* Read's maskKey
    arg,          \* Ping's argument ctx
    ctx,          \* Ping's local ctx after line 229-233
    waitOn,       \* the context whose Done() channel Ping receives from
    first,        \* Ping found no marker and took lines 228-242
    result,       \* what the last call returned
    calls,        \* number of calls made
    \* history
    nreads,       \* underlying.Read calls made by the current (last) call
    nwrites,      \* underlying.Write calls made by the current (last) call
    nwritten,     \* frames the current (last) call put on the stream
    callClosed,   \* a Close call had returned when the call started
    callReading,  \* a Read was blocked waiting for inbound bytes when the call started
    closeErr,     \* what the last c.underlying.Close() returned
    ioErr,        \* what the call's last c.underlying.Read or Write returned
    pongResolved, \* contexts cancelled by a decoded Pong before they were done
    pingFrames,   \* Ping frames written since no ping was outstanding
    cancelledWaiting, \* callers that cancelled their context while their Ping waited
    \* AcceptHTTP
    request,      \* r: the request's header values
    response,     \* w: the response writer
    acceptPc,     \* where the AcceptHTTP call stands
    acceptResult  \* what AcceptHTTP returned

connVars == <<closed, rmx, wmx, pingMx, pingCtx, pingCancel>>
streamVars == <<inbound, outbound, uclosed, sent>>
ctxVars == <<ctxErr, ctxParent, nextCtx>>
readVars == <<header, message, payloadLength, maskKey>>
pingVars == <<arg, ctx, waitOn, first>>
histVars == <<nreads, nwrites, nwritten, callClosed, callReading, closeErr, ioErr,
             pongResolved, pingFrames, cancelledWaiting>>
acceptVars == <<request, response, acceptPc, acceptResult>>
\* The Conn, its stream, the contexts and the goroutines that call the Conn.
connState == <<connVars, streamVars, ctxVars, pc, cur, ccaller, wcaller, wmsg,
               readVars, pingVars, result, calls, histVars>>
vars == <<connState, acceptVars>>


\* ------------------------------------------------------------ byte helpers
Byte == 0..255

Min(a, b) == IF a < b THEN a ELSE b

\* make([]byte, n): n zero bytes.
Zeros(n) == [i \in 1..n |-> 0]

RECURSIVE Pow2(_)
Pow2(k) == IF k = 0 THEN 1 ELSE 2 * Pow2(k - 1)

\* a ^ b on bytes (the xor of conn.go:154), bit by bit.
RECURSIVE XorBits(_, _, _)
XorBits(a, b, k) ==
    IF k = 0 THEN 0
    ELSE (IF (a % 2) = (b % 2) THEN 0 ELSE 1) + 2 * XorBits(a \div 2, b \div 2, k - 1)

Xor(a, b) == XorBits(a, b, 8)

\* binary.BigEndian.PutUint16 / PutUint64: n as k big-endian bytes (the low
\* byte last, the bytes above it from n \div 256).
RECURSIVE BigEndianPut(_, _)
BigEndianPut(n, k) ==
    IF k = 0 THEN <<>>
    ELSE Append(BigEndianPut(n \div 256, k - 1), n % 256)

\* binary.BigEndian.Uint16 / Uint64: the unsigned value of the bytes.
RECURSIVE BigEndianValue(_)
BigEndianValue(b) ==
    IF Len(b) = 0 THEN 0
    ELSE BigEndianValue(SubSeq(b, 1, Len(b) - 1)) * 256 + b[Len(b)]

\* int(binary.BigEndian.Uint64(b)) on a 64-bit build: with the top bit set the
\* int is negative (any negative length makes make([]byte, n) panic alike).
IntOfUint64(b) == IF b[1] >= 128 THEN -1 ELSE BigEndianValue(b)

\* -------------------------------------------------- Conn.Write: the frame
\* conn.go:172-184: fin|opcode; a type outside the five appends nothing.
FirstByteMutant(messageType) ==
    CASE messageType = MessageText   -> <<128 + 1>>
      [] messageType = MessageBinary -> <<128 + 2>>
      [] messageType = MessageClose  -> <<128 + 9>>
      [] messageType = MessagePing   -> <<128 + 8>>
      [] messageType = MessagePong   -> <<128 + 10>>
      [] OTHER                       -> <<>>

FirstByte(messageType) ==
    CASE messageType = MessageText   -> <<128 + 1>>
      [] messageType = MessageBinary -> <<128 + 2>>
      [] messageType = MessageClose  -> <<128 + 8>>
      [] messageType = MessagePing   -> <<128 + 9>>
      [] messageType = MessagePong   -> <<128 + 10>>
      [] OTHER                       -> <<>>

\* frame = frame[:n] on a slice whose spare capacity is still zero.
Reslice(frame, n) == [i \in 1..n |-> IF i <= Len(frame) THEN frame[i] ELSE 0]

\* frame[lo:hi] = bytes (0-based, half open), as PutUint16/PutUint64 store them.
PutAt(frame, lo, bytes) ==
    [i \in 1..Len(frame) |->
        IF i > lo /\ i <= lo + Len(bytes) THEN bytes[i - lo] ELSE frame[i]]

\* A header whose short form also takes the length 126.
FrameHeaderMutant(messageType, n) ==
    LET f0 == FirstByte(messageType) IN
    IF n < 127 THEN Append(f0, n)
    ELSE IF n < 65536
         THEN PutAt(Reslice(Append(f0, 126), 4), 2, BigEndianPut(n, 2))
         ELSE PutAt(Reslice(Append(f0, 127), 10), 2, BigEndianPut(n, 8))

\* conn.go:186-198: the header with the payload length.
FrameHeader(messageType, n) ==
    LET f0 == FirstByte(messageType) IN
    IF n < 126 THEN Append(f0, n)
    ELSE IF n < 65536
         THEN PutAt(Reslice(Append(f0, 126), 4), 2, BigEndianPut(n, 2))
         ELSE PutAt(Reslice(Append(f0, 127), 10), 2, BigEndianPut(n, 8))

\* A Write that hands the header alone to underlying.Write.
WriteFrameMutantHeader(m) == FrameHeader(m.Type, Len(m.Data))

\* conn.go:171-207: the whole frame Write hands to underlying.Write.
WriteFrame(m) == FrameHeader(m.Type, Len(m.Data)) \o m.Data

\* --------------------------------------------------- Conn.Read: the header
Fin(b0) == (b0 \div 128) % 2 = 1
Rsv(b0) == (b0 \div 16) % 8
Opcode(b0) == b0 % 16
LengthIndicator(b1) == b1 % 128
IsMasked(b1) == (b1 \div 128) % 2 = 1

\* conn.go:152-156: payload[i] ^= maskKey[i%4].
UnmaskMutant(payload, key) ==
    [i \in 1..Len(payload) |-> Xor(payload[i], key[(i % 4) + 1])]

Unmask(payload, key) ==
    [i \in 1..Len(payload) |-> Xor(payload[i], key[((i - 1) % 4) + 1])]

\* ------------------------------------------------------------ the errors
ErrNil == "nil"
ErrConnectionClosed == "ErrConnectionClosed"
ErrConnectionRead == "ErrConnectionRead"
ErrConnectionWrite == "ErrConnectionWrite"
ErrMalformedFrame == "ErrMalformedFrame"
\* An error returned by underlying.Close().
ErrUnderlyingClose == "underlying close error"

\* What a call returned: its method, its error, and Read's *Message or
\* Ping's bool.
NoResult == [op |-> "none", err |-> ErrNil, msg |-> NilMessage, ok |-> FALSE]
ReadResult(m, e) == [op |-> "Read", err |-> e, msg |-> m, ok |-> FALSE]
WriteResult(e) == [op |-> "Write", err |-> e, msg |-> NilMessage, ok |-> FALSE]
CloseResult(e) == [op |-> "Close", err |-> e, msg |-> NilMessage, ok |-> FALSE]
PingResult(b, e) == [op |-> "Ping", err |-> e, msg |-> NilMessage, ok |-> b]

\* ------------------------------------------------------------ the inputs
\* Frames the peer sends: the text "a" masked with key 1 2 3 4 (as
\* conn_test.go:185 masks "test"), a binary frame whose one byte payload is
\* announced by a 16-bit extended length, Close, Ping, Pong, and a frame with
\* the unknown opcode 0x3 (conn_test.go:102).
PeerFrames ==
    { <<129, 129, 1, 2, 3, 4, 96>>, <<130, 126, 0, 1, 7>>,
      <<136, 0>>, <<137, 0>>, <<138, 0>>, <<131, 0>> }

\* Messages the callers write.
WriteMessages == { [Type |-> MessageText, Data |-> <<97>>] }


\* ------------------------------------------------------------ AcceptHTTP
\* A Go string is its bytes: header values are sequences of byte values.
\* "websocket" (accept.go:91, 120)
UpgradeWebsocket ==
    <<119, 101, 98, 115, 111, 99, 107, 101, 116>>
\* "Upgrade" (accept.go:121)
ConnectionUpgrade ==
    <<85, 112, 103, 114, 97, 100, 101>>
\* "13" (accept.go:95)
Version13 ==
    <<49, 51>>
\* accept.go:80
sec_websocket_key_noncesize == 24
\* accept.go:81: "258EAFA5-E914-47DA-95CA-C5AB0DC85B11"
websocket_uuid ==
    <<50, 53, 56, 69, 65, 70, 65, 53, 45, 69, 57, 49, 52, 45, 52, 55, 68,
      65, 45, 57, 53, 67, 65, 45, 67, 53, 65, 66, 48, 68, 67, 56, 53, 66,
      49, 49>>
\* The key of accept_test.go:36: "dGhlIHNhbXBsZSBub25jZQ=="
TestKey ==
    <<100, 71, 104, 108, 73, 72, 78, 104, 98, 88, 66, 115, 90, 83, 66, 117,
      98, 50, 53, 106, 90, 81, 61, 61>>

\* The errors AcceptHTTP returns.
ErrRequestNotWebsocket == "ErrRequestNotWebsocket"
ErrVersionNotSupported == "ErrVersionNotSupported"
ErrKeyNotProvided == "ErrKeyNotProvided"
ErrHijackFailed == "ErrHijackFailed"

\* strings.TrimSpace on ASCII: leading and trailing \t \n \v \f \r and
\* space are dropped.
AsciiSpace == {9, 10, 11, 12, 13, 32}

RECURSIVE TrimLeft(_)
TrimLeft(s) ==
    IF Len(s) > 0 /\ s[1] \in AsciiSpace THEN TrimLeft(SubSeq(s, 2, Len(s)))
    ELSE s

RECURSIVE TrimRight(_)
TrimRight(s) ==
    IF Len(s) > 0 /\ s[Len(s)] \in AsciiSpace
    THEN TrimRight(SubSeq(s, 1, Len(s) - 1))
    ELSE s

TrimSpace(s) == TrimRight(TrimLeft(s))

\* copy(dst, src): the first min(len(dst), len(src)) bytes of dst become
\* those of src.
Copy(dst, src) ==
    [i \in 1..Len(dst) |-> IF i <= Len(src) THEN src[i] ELSE dst[i]]

\* A uint32 as <<its high 16 bits, its low 16 bits>>, and the operations
\* SHA-1 makes on it.
RECURSIVE AndBits(_, _, _)
AndBits(a, b, k) ==
    IF k = 0 THEN 0
    ELSE ((a % 2) * (b % 2)) + 2 * AndBits(a \div 2, b \div 2, k - 1)

WXor(a, b) == <<XorBits(a[1], b[1], 16), XorBits(a[2], b[2], 16)>>
WAnd(a, b) == <<AndBits(a[1], b[1], 16), AndBits(a[2], b[2], 16)>>
WNot(a) == <<65535 - a[1], 65535 - a[2]>>
WOr(a, b) == WNot(WAnd(WNot(a), WNot(b)))
\* a + b modulo 2^32
WAdd(a, b) ==
    LET lo == a[2] + b[2]
        hi == a[1] + b[1] + (lo \div 65536)
    IN <<hi % 65536, lo % 65536>>
\* bits.RotateLeft32(a, k)
RotateLeft(a, k) ==
    LET s == IF k >= 16 THEN <<a[2], a[1]>> ELSE a
        j == k % 16
    IN IF j = 0 THEN s
       ELSE << ((s[1] * Pow2(j)) % 65536) + (s[2] \div Pow2(16 - j)),
               ((s[2] * Pow2(j)) % 65536) + (s[1] \div Pow2(16 - j)) >>

\* crypto/sha1 (accept.go:116). The initial digest 67452301 EFCDAB89
\* 98BADCFE 10325476 C3D2E1F0:
Sha1Init == << <<26437, 8961>>, <<61389, 43913>>, <<39098, 56574>>,
              <<4146, 21622>>, <<50130, 57840>> >>
\* the round constants 5A827999 6ED9EBA1 8F1BBCDC CA62C1D6:
Sha1K(t) ==
    IF t < 20 THEN <<23170, 31129>>
    ELSE IF t < 40 THEN <<28377, 60321>>
    ELSE IF t < 60 THEN <<36635, 48348>>
    ELSE <<51810, 49622>>
\* the round functions:
Sha1F(t, b, c, d) ==
    IF t < 20 THEN WOr(WAnd(b, c), WAnd(WNot(b), d))
    ELSE IF t < 40 THEN WXor(WXor(b, c), d)
    ELSE IF t < 60 THEN WOr(WOr(WAnd(b, c), WAnd(b, d)), WAnd(c, d))
    ELSE WXor(WXor(b, c), d)

\* the message, a 1 bit, zero bits up to 56 bytes modulo 64, and the
\* message's length in bits as 8 big-endian bytes:
Sha1Pad(m) ==
    m \o <<128>> \o Zeros((55 - Len(m)) % 64) \o BigEndianPut(8 * Len(m), 8)

\* the 16 words of a block become n (80), each new word from four before
\* it; the words up to the middle are made first:
RECURSIVE Sha1Expand(_, _)
Sha1Expand(x, n) ==
    IF Len(x) >= n THEN x
    ELSE IF Len(x) + 1 = n
    THEN Append(x, RotateLeft(WXor(WXor(x[n - 3], x[n - 8]),
                                   WXor(x[n - 14], x[n - 16])), 1))
    ELSE Sha1Expand(Sha1Expand(x, (Len(x) + n) \div 2), n)

\* round s[6] on the five words s[1..5]:
Sha1Round(s, x) ==
    LET t == s[6]
        tmp == WAdd(WAdd(WAdd(RotateLeft(s[1], 5), Sha1F(t, s[2], s[3], s[4])),
                         WAdd(s[5], Sha1K(t))), x[t + 1])
    IN <<tmp, s[1], RotateLeft(s[2], 30), s[3], s[4], t + 1>>

\* the rounds from s[6] up to n (80); the rounds up to the middle are made
\* first:
RECURSIVE Sha1Rounds(_, _, _)
Sha1Rounds(s, x, n) ==
    IF s[6] >= n THEN s
    ELSE IF s[6] + 1 = n THEN Sha1Round(s, x)
    ELSE Sha1Rounds(Sha1Rounds(s, x, (s[6] + n) \div 2), x, n)

\* one block of 64 bytes is added to the digest h:
Sha1Block(h, p) ==
    LET x == Sha1Expand(<< <<p[1] * 256 + p[2], p[3] * 256 + p[4]>>,
                           <<p[5] * 256 + p[6], p[7] * 256 + p[8]>>,
                           <<p[9] * 256 + p[10], p[11] * 256 + p[12]>>,
                           <<p[13] * 256 + p[14], p[15] * 256 + p[16]>>,
                           <<p[17] * 256 + p[18], p[19] * 256 + p[20]>>,
                           <<p[21] * 256 + p[22], p[23] * 256 + p[24]>>,
                           <<p[25] * 256 + p[26], p[27] * 256 + p[28]>>,
                           <<p[29] * 256 + p[30], p[31] * 256 + p[32]>>,
                           <<p[33] * 256 + p[34], p[35] * 256 + p[36]>>,
                           <<p[37] * 256 + p[38], p[39] * 256 + p[40]>>,
                           <<p[41] * 256 + p[42], p[43] * 256 + p[44]>>,
                           <<p[45] * 256 + p[46], p[47] * 256 + p[48]>>,
                           <<p[49] * 256 + p[50], p[51] * 256 + p[52]>>,
                           <<p[53] * 256 + p[54], p[55] * 256 + p[56]>>,
                           <<p[57] * 256 + p[58], p[59] * 256 + p[60]>>,
                           <<p[61] * 256 + p[62], p[63] * 256 + p[64]>> >>, 80)
        d == Sha1Rounds(<<h[1], h[2], h[3], h[4], h[5], 0>>, x, 80)
    IN <<WAdd(h[1], d[1]), WAdd(h[2], d[2]), WAdd(h[3], d[3]),
         WAdd(h[4], d[4]), WAdd(h[5], d[5])>>

RECURSIVE Sha1Blocks(_, _)
Sha1Blocks(h, p) ==
    IF Len(p) = 0 THEN h
    ELSE Sha1Blocks(Sha1Block(h, SubSeq(p, 1, 64)), SubSeq(p, 65, Len(p)))

\* sha1.Sum(m): the 20 bytes of the digest.
Sha1Sum(m) ==
    LET h == Sha1Blocks(Sha1Init, Sha1Pad(m))
    IN [i \in 1..20 |->
          LET half == h[((i - 1) \div 4) + 1][(((i - 1) % 4) \div 2) + 1]
          IN IF (i % 2) = 1 THEN half \div 256 ELSE half % 256]

\* encoding/base64 (accept.go:117). The alphabet of base64.StdEncoding:
\* A-Z a-z 0-9 + /
Base64Alphabet ==
    <<65, 66, 67, 68, 69, 70, 71, 72, 73, 74, 75, 76, 77, 78, 79, 80, 81,
      82, 83, 84, 85, 86, 87, 88, 89, 90, 97, 98, 99, 100, 101, 102, 103,
      104, 105, 106, 107, 108, 109, 110, 111, 112, 113, 114, 115, 116, 117,
      118, 119, 120, 121, 122, 48, 49, 50, 51, 52, 53, 54, 55, 56, 57, 43,
      47>>
\* '='
Base64Pad == 61

Base64Char(n) == Base64Alphabet[n + 1]

\* base64.StdEncoding.Encode: 3 bytes become 4 characters; the last 1 or 2
\* bytes become 2 or 3 characters and padding.
RECURSIVE Base64Encode(_)
Base64Encode(b) ==
    IF Len(b) = 0 THEN <<>>
    ELSE IF Len(b) = 1
    THEN << Base64Char(b[1] \div 4), Base64Char((b[1] % 4) * 16),
            Base64Pad, Base64Pad >>
    ELSE IF Len(b) = 2
    THEN << Base64Char(b[1] \div 4),
            Base64Char((b[1] % 4) * 16 + (b[2] \div 16)),
            Base64Char((b[2] % 16) * 4), Base64Pad >>
    ELSE << Base64Char(b[1] \div 4),
            Base64Char((b[1] % 4) * 16 + (b[2] \div 16)),
            Base64Char((b[2] % 16) * 4 + (b[3] \div 64)),
            Base64Char(b[3] % 64) >>
         \o Base64Encode(SubSeq(b, 4, Len(b)))

\* accept.go:90-101: the error of the first check that fails, or nil.
AcceptValidationMutant(req) ==
    IF req.Upgrade # UpgradeWebsocket THEN ErrRequestNotWebsocket
    ELSE IF req.Connection # ConnectionUpgrade THEN ErrRequestNotWebsocket
    ELSE IF req.Version # Version13 THEN ErrVersionNotSupported
    ELSE IF TrimSpace(req.Key) = <<>> THEN ErrKeyNotProvided
    ELSE ErrNil

AcceptValidation(req) ==
    IF req.Upgrade # UpgradeWebsocket THEN ErrRequestNotWebsocket
    ELSE IF req.Version # Version13 THEN ErrVersionNotSupported
    ELSE IF TrimSpace(req.Key) = <<>> THEN ErrKeyNotProvided
    ELSE ErrNil

\* accept.go:105-114: keyConcat. A key of 24 bytes is copied, with the
\* uuid, into an array of 24 + 36 bytes; any other key is converted.
KeyConcatMutant(key) ==
    IF Len(key) = sec_websocket_key_noncesize
    THEN Copy(Zeros(sec_websocket_key_noncesize), key \o websocket_uuid)
    ELSE key \o websocket_uuid

KeyConcat(key) ==
    IF Len(key) = sec_websocket_key_noncesize
    THEN Copy(Zeros(sec_websocket_key_noncesize + Len(websocket_uuid)),
              key \o websocket_uuid)
    ELSE key \o websocket_uuid

\* accept.go:116-117, 122: the 28 bytes of acceptKey, as a string.
AcceptKey(key) == Copy(Zeros(28), Base64Encode(Sha1Sum(KeyConcat(key))))

\* accept.go:126-135: the error of obtaining the stream, or nil: w is no
\* http.Hijacker, or its Hijack fails.
HijackErrorMutant(wr) ==
    IF ~wr.hijacker THEN ErrHijackFailed
    ELSE ErrNil

HijackError(wr) ==
    IF ~wr.hijacker THEN ErrHijackFailed
    ELSE IF wr.hijackFails THEN ErrHijackFailed
    ELSE ErrNil

\* The header values of the requests: Upgrade (accept_test.go:33, 59, and
\* "Websocket", "websocket " and none),
Upgrades ==
    { UpgradeWebsocket,
      <<110, 111, 116, 45, 119, 101, 98, 115, 111, 99, 107, 101, 116>>,
      <<87, 101, 98, 115, 111, 99, 107, 101, 116>>,
      UpgradeWebsocket \o <<32>>,
      <<>> }
\* Connection ("Upgrade", "keep-alive" and none),
Connections ==
    { ConnectionUpgrade,
      <<107, 101, 101, 112, 45, 97, 108, 105, 118, 101>>,
      <<>> }
\* Sec-WebSocket-Version ("13", "14" of accept_test.go:78, " 13" and none),
Versions == { Version13, <<49, 52>>, <<32, 49, 51>>, <<>> }
\* Sec-WebSocket-Key: none, blank, the test's key, the test's key between
\* blanks, "abc", and the 28 characters "AAAAAAAAAAAAAAAAAAAAAAAAAAA=".
Keys ==
    { <<>>, <<32, 9>>, TestKey, <<32>> \o TestKey \o <<13, 10>>,
      <<97, 98, 99>>, [i \in 1..28 |-> IF i = 28 THEN 61 ELSE 65] }

Requests ==
    [Upgrade : Upgrades, Connection : Connections, Version : Versions,
     Key : Keys]

\* The response writers (accept_test.go:14-28): one that is no
\* http.Hijacker, one whose Hijack fails, one whose Hijack returns a stream.
\* Nothing is written to them yet.
NoHeader == [Upgrade |-> <<>>, Connection |-> <<>>, SecWebSocketAccept |-> <<>>]

ResponseWriters ==
    { [header |-> NoHeader, status |-> 0, hijacker |-> h, hijackFails |-> f,
       hijacked |-> FALSE] :
        <<h, f>> \in {<<FALSE, FALSE>>, <<TRUE, TRUE>>, <<TRUE, FALSE>>} }

NoAcceptResult == [conn |-> "nil", err |-> ErrNil]

\* The Conn was not made by AcceptHTTP: there is no request.
NoAcceptCall ==
    /\ request = [Upgrade |-> <<>>, Connection |-> <<>>, Version |-> <<>>,
                  Key |-> <<>>]
    /\ response = [header |-> NoHeader, status |-> 0, hijacker |-> FALSE,
                   hijackFails |-> FALSE, hijacked |-> FALSE]
    /\ acceptPc = "none"
    /\ acceptResult = NoAcceptResult

\* -------------------------------------------- the errors of c.underlying
\* What a Read or Write of the underlying stream returned: nil, the error of
\* a stream that this side closed (net.ErrClosed, errors.go:64), or another
\* error.
StreamNil == "nil"
StreamErrClosed == "net.ErrClosed"
StreamErrOther == "other error"

\* The error of a stream call that failed or not: a stream that Close
\* closed fails with net.ErrClosed.
StreamError(failed) ==
    IF ~failed THEN StreamNil
    ELSE IF uclosed THEN StreamErrClosed
    ELSE StreamErrOther

\* ------------------------------------------------------------------- Init
\* A new Conn (conn.go:29-31, accept.go:136): open, unlocked, with no ping
\* marker, and no goroutine in a call.
NewConn ==
    /\ closed = FALSE
    /\ rmx = 0
    /\ wmx = 0
    /\ pingMx = 0
    /\ pingCtx = NilCtx
    /\ pingCancel = NilCtx
    /\ inbound = <<>>
    /\ outbound = <<>>
    /\ uclosed = FALSE
    /\ sent = 0
    /\ ctxErr = [i \in CtxIds |-> ErrNone]
    /\ ctxParent = [d \in DerivedCtxs |-> Background]
    /\ nextCtx = MaxCalls + 1
    /\ pc = [t \in Threads |-> "idle"]
    /\ cur = [t \in Threads |-> "none"]
    /\ ccaller = [t \in Threads |-> "top"]
    /\ wcaller = [t \in Threads |-> "top"]
    /\ wmsg = [t \in Threads |-> NilMessage]
    /\ header = [t \in Threads |-> <<0, 0>>]
    /\ message = [t \in Threads |-> NilMessage]
    /\ payloadLength = [t \in Threads |-> 0]
    /\ maskKey = [t \in Threads |-> <<>>]
    /\ arg = [t \in Threads |-> NilCtx]
    /\ ctx = [t \in Threads |-> NilCtx]
    /\ waitOn = [t \in Threads |-> NilCtx]
    /\ first = [t \in Threads |-> FALSE]
    /\ result = [t \in Threads |-> NoResult]
    /\ calls = 0
    /\ nreads = [t \in Threads |-> 0]
    /\ nwrites = [t \in Threads |-> 0]
    /\ nwritten = [t \in Threads |-> 0]
    /\ callClosed = [t \in Threads |-> FALSE]
    /\ callReading = [t \in Threads |-> FALSE]
    /\ closeErr = ErrNil
    /\ ioErr = [t \in Threads |-> StreamNil]
    /\ pongResolved = {}
    /\ pingFrames = 0
    /\ cancelledWaiting = {}

\* From (conn.go:29-31): the Conn is built around a stream the caller has.
Init ==
    /\ NewConn
    /\ NoAcceptCall

\* ------------------------------------------------- AcceptHTTP is called
\* accept.go:87: AcceptHTTP(w, r) is called.
AcceptInit ==
    /\ request \in Requests
    /\ response \in ResponseWriters
    /\ acceptPc = "validate"
    /\ acceptResult = NoAcceptResult
    /\ NewConn

\* accept.go:90-101: the three checks; the first that fails returns.
AcceptValidate ==
    /\ acceptPc = "validate"
    /\ LET err == AcceptValidation(request)
       IN IF err # ErrNil
          THEN /\ acceptResult' = [conn |-> "nil", err |-> err]
               /\ acceptPc' = "done"
          ELSE /\ acceptPc' = "respond"
               /\ UNCHANGED acceptResult
    /\ UNCHANGED <<request, response, connState>>

\* accept.go:103-123: the accept key, the three response headers, the
\* status 101.
AcceptRespond ==
    /\ acceptPc = "respond"
    /\ LET key == TrimSpace(request.Key)
       IN response' =
            [response EXCEPT
                !.header = [Upgrade |-> UpgradeWebsocket,
                            Connection |-> ConnectionUpgrade,
                            SecWebSocketAccept |-> AcceptKey(key)],
                !.status = IF response.status = 0 THEN 101
                           ELSE response.status]
    /\ acceptPc' = "hijack"
    /\ UNCHANGED <<request, acceptResult, connState>>

\* accept.go:125-136: the stream is taken from the response writer and the
\* Conn is built around it.
AcceptHijack ==
    /\ acceptPc = "hijack"
    /\ LET err == HijackError(response)
       IN /\ acceptResult' = [conn |-> IF err = ErrNil THEN "Conn" ELSE "nil",
                              err |-> err]
          /\ response' = [response EXCEPT !.hijacked = (err = ErrNil)]
    /\ acceptPc' = "done"
    /\ UNCHANGED <<request, connState>>

AcceptNext == AcceptValidate \/ AcceptRespond \/ AcceptHijack

AcceptSpec == AcceptInit /\ [][AcceptNext]_vars

\* ------------------------------------------------------- a call is made
\* conn.go:58: goroutine u holds c.rmx inside Read and its first
\* c.underlying.Read(header) has no byte to return yet.
ReadBlocked(u) ==
    /\ pc[u] = "R_hdr"
    /\ rmx = u
    /\ nreads[u] = 0
    /\ Len(inbound) = 0
    /\ ~uclosed

\* A goroutine that is in no call makes a call of method op: its locals
\* start afresh.
Call(t, op, start) ==
    /\ pc[t] = "idle"
    /\ UNCHANGED acceptVars
    /\ t = calls + 1
    /\ calls' = calls + 1
    /\ pc' = [pc EXCEPT ![t] = start]
    /\ cur' = [cur EXCEPT ![t] = op]
    /\ result' = [result EXCEPT ![t] = NoResult]
    /\ nreads' = [nreads EXCEPT ![t] = 0]
    /\ nwrites' = [nwrites EXCEPT ![t] = 0]
    /\ nwritten' = [nwritten EXCEPT ![t] = 0]
    /\ callClosed' = [callClosed EXCEPT ![t] = closed]
    /\ ioErr' = [ioErr EXCEPT ![t] = StreamNil]
    /\ callReading' = [callReading EXCEPT ![t] = \E u \in Threads : ReadBlocked(u)]
    /\ cancelledWaiting' = cancelledWaiting \ {t}
    /\ ccaller' = [ccaller EXCEPT ![t] = "top"]
    /\ wcaller' = [wcaller EXCEPT ![t] = "top"]
    /\ header' = [header EXCEPT ![t] = <<0, 0>>]
    /\ payloadLength' = [payloadLength EXCEPT ![t] = 0]
    /\ maskKey' = [maskKey EXCEPT ![t] = <<>>]
    /\ ctx' = [ctx EXCEPT ![t] = NilCtx]
    /\ waitOn' = [waitOn EXCEPT ![t] = NilCtx]
    /\ first' = [first EXCEPT ![t] = FALSE]
    /\ UNCHANGED <<connVars, streamVars, ctxVars, closeErr, pongResolved, pingFrames>>

\* conn.go:48 and 54: Read is called; message := new(Message).
CallRead(t) ==
    /\ Call(t, "Read", "R_lock")
    /\ message' = [message EXCEPT ![t] = [Type |-> 0, Data |-> <<>>]]
    /\ wmsg' = [wmsg EXCEPT ![t] = NilMessage]
    /\ arg' = [arg EXCEPT ![t] = NilCtx]

\* conn.go:164: Write(message) is called.
CallWrite(t) ==
    \E m \in WriteMessages :
        /\ Call(t, "Write", "W_lock")
        /\ wmsg' = [wmsg EXCEPT ![t] = m]
        /\ message' = [message EXCEPT ![t] = NilMessage]
        /\ arg' = [arg EXCEPT ![t] = NilCtx]

\* conn.go:224: Ping(ctx) is called, with nil or with the caller's context.
CallPing(t) ==
    \E a \in {NilCtx, CallerCtx(t)} :
        /\ Call(t, "Ping", "P_lock")
        /\ arg' = [arg EXCEPT ![t] = a]
        /\ wmsg' = [wmsg EXCEPT ![t] = NilMessage]
        /\ message' = [message EXCEPT ![t] = NilMessage]

\* conn.go:36: Close is called.
CallClose(t) ==
    /\ Call(t, "Close", "C_rmx")
    /\ wmsg' = [wmsg EXCEPT ![t] = NilMessage]
    /\ message' = [message EXCEPT ![t] = NilMessage]
    /\ arg' = [arg EXCEPT ![t] = NilCtx]


\* ------------------------------------------------- c.underlying.Read(buf)
\* What one underlying.Read of an n byte buffer can do: fail (the only
\* outcome once the stream is closed), or, when bytes are there (or n = 0),
\* move up to n of them into the zeroed buffer.  With nothing to read on an
\* open stream the call blocks.
ReadOutcomes(n) ==
    {[err |-> TRUE, n |-> 0, buf |-> Zeros(n), rest |-> inbound, io |-> 1]}
    \cup
    (IF ~uclosed /\ (n = 0 \/ Len(inbound) > 0)
     THEN LET k == Min(n, Len(inbound)) IN
          {[err |-> FALSE, n |-> k,
            buf |-> SubSeq(inbound, 1, k) \o Zeros(n - k),
            rest |-> SubSeq(inbound, k + 1, Len(inbound)), io |-> 1]}
     ELSE {})

\* ------------------------------------------------------------ Conn.Read
\* A Read that never looks at c.closed.
ReadSeesClosedMutant == FALSE

\* conn.go:51: if c.closed.
ReadSeesClosed == closed

\* conn.go:49-53: c.rmx.Lock(); a closed Conn returns ErrConnectionClosed
\* (the deferred Unlock runs).
ReadLock(t) ==
    /\ pc[t] = "R_lock"
    /\ UNCHANGED acceptVars
    /\ rmx = 0
    /\ IF ReadSeesClosed
       THEN /\ pc' = [pc EXCEPT ![t] = "idle"]
            /\ result' = [result EXCEPT ![t] = ReadResult(NilMessage, ErrConnectionClosed)]
            /\ message' = [message EXCEPT ![t] = NilMessage]
            /\ rmx' = 0
       ELSE /\ pc' = [pc EXCEPT ![t] = "R_hdr"]
            /\ rmx' = t
            /\ UNCHANGED <<result, message>>
    /\ UNCHANGED <<closed, wmx, pingMx, pingCtx, pingCancel, streamVars, ctxVars,
                   cur, ccaller, wcaller, wmsg, header, payloadLength, maskKey,
                   pingVars, calls, histVars>>

\* conn.go:114-146: the next underlying.Read after the opcode's case, for
\* header byte b1: the extended length, else the mask key, else the payload.
AfterDispatchPc(b1) ==
    IF LengthIndicator(b1) \in {126, 127} THEN "R_len"
    ELSE IF IsMasked(b1) THEN "R_mask"
    ELSE "R_payload"

\* conn.go:115: payloadLength := int(header[1] & 0x7F).
AfterDispatchLength(b1) == LengthIndicator(b1)

\* A switch with no case for opcode 0x0.
KnownOpcodesMutantNoContinuation == {1, 2, 8, 9, 10}

\* A switch with a case for opcode 0x3.
KnownOpcodesMutant == {0, 1, 2, 3, 8, 9, 10}

\* conn.go:110-111 guard: the opcodes the switch has a case for.
KnownOpcodes == {0, 1, 2, 8, 9, 10}

\* conn.go:62-112: what the two header bytes lead to.
HeaderVerdict(o) ==
    IF o.err THEN ErrConnectionRead
    ELSE IF o.n # 2 THEN ErrMalformedFrame
    ELSE IF ~Fin(o.buf[1]) THEN ErrMalformedFrame
    ELSE IF Rsv(o.buf[1]) # 0 THEN ErrMalformedFrame
    ELSE IF Opcode(o.buf[1]) \notin KnownOpcodes THEN ErrMalformedFrame
    ELSE ErrNil

\* conn.go:83-109: where the opcode's case takes Read next.
DispatchPc(opcode, b1) ==
    CASE opcode = 8  -> "C_rmx"
      [] opcode = 9  -> "W_lock"
      [] opcode = 10 -> "R_pong"
      [] OTHER       -> AfterDispatchPc(b1)

\* A switch that assigns the types of 0x1 and 0x2 the wrong way round.
DispatchTypeMutant(opcode, old) ==
    CASE opcode = 1 -> MessageBinary
      [] opcode = 2 -> MessageText
      [] OTHER      -> old

\* conn.go:85-88: the type the data opcodes assign at once (0x0 assigns none).
DispatchType(opcode, old) ==
    CASE opcode = 1 -> MessageText
      [] opcode = 2 -> MessageBinary
      [] OTHER      -> old

\* A Read that answers a Ping frame with a Ping frame.
PongMessageMutant == [Type |-> MessagePing, Data |-> <<>>]

\* conn.go:93-96: the Message Read hands to c.Write in its 0x9 case.
PongMessage == [Type |-> MessagePong, Data |-> <<>>]

\* conn.go:56-112: read the header, check fin and the RSV bits, and switch
\* on the opcode: 0x8 calls c.Close(), 0x9 calls c.Write(pong), 0xA goes
\* for c.pingMx.
ReadHeader(t) ==
    /\ pc[t] = "R_hdr"
    /\ UNCHANGED acceptVars
    /\ \E o \in ReadOutcomes(2) :
        LET v == HeaderVerdict(o)
            opcode == Opcode(o.buf[1])
        IN  /\ inbound' = o.rest
            /\ nreads' = [nreads EXCEPT ![t] = @ + o.io]
            /\ ioErr' = [ioErr EXCEPT ![t] = StreamError(o.err)]
            /\ IF v # ErrNil
               THEN /\ pc' = [pc EXCEPT ![t] = "idle"]
                    /\ result' = [result EXCEPT ![t] = ReadResult(NilMessage, v)]
                    /\ message' = [message EXCEPT ![t] = NilMessage]
                    /\ rmx' = 0
                    /\ UNCHANGED <<header, payloadLength, ccaller, wcaller, wmsg>>
               ELSE /\ pc' = [pc EXCEPT ![t] = DispatchPc(opcode, o.buf[2])]
                    /\ payloadLength' = [payloadLength EXCEPT ![t] = AfterDispatchLength(o.buf[2])]
                    /\ header' = [header EXCEPT ![t] = o.buf]
                    /\ message' = [message EXCEPT ![t].Type = DispatchType(opcode, @)]
                    /\ ccaller' = [ccaller EXCEPT ![t] = IF opcode = 8 THEN "Read" ELSE @]
                    /\ wcaller' = [wcaller EXCEPT ![t] = IF opcode = 9 THEN "Read" ELSE @]
                    /\ wmsg' = [wmsg EXCEPT ![t] = IF opcode = 9 THEN PongMessage ELSE @]
                    /\ UNCHANGED <<result, rmx>>
    /\ UNCHANGED <<closed, wmx, pingMx, pingCtx, pingCancel, outbound, uclosed, sent,
                   ctxVars, cur, maskKey, pingVars, calls,
                   nwrites, nwritten, callClosed, callReading, closeErr, pongResolved, pingFrames, cancelledWaiting>>

\* conn.go:101-109: the Pong case: under c.pingMx, call pingCancel (if any)
\* and clear the marker.
ReadPong(t) ==
    /\ pc[t] = "R_pong"
    /\ UNCHANGED acceptVars
    /\ pingMx = 0
    /\ ctxErr' = IF pingCancel # NilCtx /\ ctxErr[pingCancel] = ErrNone
                 THEN [ctxErr EXCEPT ![pingCancel] = Canceled]
                 ELSE ctxErr
    /\ pongResolved' = IF pingCancel # NilCtx /\ ctxErr[pingCancel] # DeadlineExceeded
                       THEN pongResolved \cup {pingCancel}
                       ELSE pongResolved
    /\ pingCtx' = NilCtx
    /\ pingCancel' = NilCtx
    /\ pingFrames' = 0
    /\ message' = [message EXCEPT ![t].Type = MessagePong]
    /\ pc' = [pc EXCEPT ![t] = AfterDispatchPc(header[t][2])]
    /\ UNCHANGED <<closed, rmx, wmx, pingMx, streamVars, ctxParent, nextCtx, cur,
                   ccaller, wcaller, wmsg, header, payloadLength, maskKey,
                   pingVars, result, calls, nreads, nwrites, nwritten, callClosed, callReading,
                   ioErr, closeErr,
                   cancelledWaiting>>

\* Read returns an error after the opcode's case ran (conn.go:121, 128, 140,
\* 148); the deferred c.rmx.Unlock() runs.
ReadFails(t, e) ==
    /\ pc' = [pc EXCEPT ![t] = "idle"]
    /\ result' = [result EXCEPT ![t] = ReadResult(NilMessage, e)]
    /\ message' = [message EXCEPT ![t] = NilMessage]
    /\ header' = [header EXCEPT ![t] = <<0, 0>>]
    /\ payloadLength' = [payloadLength EXCEPT ![t] = 0]
    /\ maskKey' = [maskKey EXCEPT ![t] = <<>>]
    /\ rmx' = 0

\* conn.go:116-131: the 2 or 8 extended bytes of the payload length.
ReadLen(t) ==
    /\ pc[t] = "R_len"
    /\ UNCHANGED acceptVars
    /\ LET ind == LengthIndicator(header[t][2])
           k == IF ind = 126 THEN 2 ELSE 8
       IN \E o \in ReadOutcomes(k) :
            /\ inbound' = o.rest
            /\ nreads' = [nreads EXCEPT ![t] = @ + o.io]
            /\ ioErr' = [ioErr EXCEPT ![t] = StreamError(o.err)]
            /\ IF o.err
               THEN ReadFails(t, ErrConnectionRead)
               ELSE /\ payloadLength' = [payloadLength EXCEPT ![t] =
                            IF ind = 126 THEN BigEndianValue(o.buf)
                            ELSE IntOfUint64(o.buf)]
                    /\ pc' = [pc EXCEPT ![t] =
                            IF IsMasked(header[t][2]) THEN "R_mask" ELSE "R_payload"]
                    /\ UNCHANGED <<result, message, rmx, header, maskKey>>
    /\ UNCHANGED <<closed, wmx, pingMx, pingCtx, pingCancel, outbound, uclosed, sent,
                   ctxVars, cur, ccaller, wcaller, wmsg, pingVars,
                   calls, nwrites, nwritten, callClosed, callReading, closeErr, pongResolved, pingFrames,
                   cancelledWaiting>>

\* conn.go:133-142: the mask key, read when the mask bit is set.
ReadMask(t) ==
    /\ pc[t] = "R_mask"
    /\ UNCHANGED acceptVars
    /\ \E o \in ReadOutcomes(4) :
            /\ inbound' = o.rest
            /\ nreads' = [nreads EXCEPT ![t] = @ + o.io]
            /\ ioErr' = [ioErr EXCEPT ![t] = StreamError(o.err)]
            /\ IF o.err
               THEN ReadFails(t, ErrConnectionRead)
               ELSE /\ maskKey' = [maskKey EXCEPT ![t] = o.buf]
                    /\ pc' = [pc EXCEPT ![t] = "R_payload"]
                    /\ UNCHANGED <<result, message, rmx, header, payloadLength>>
    /\ UNCHANGED <<closed, wmx, pingMx, pingCtx, pingCancel, outbound, uclosed, sent,
                   ctxVars, cur, ccaller, wcaller, wmsg,
                   pingVars, calls, nwrites, nwritten, callClosed, callReading, closeErr, pongResolved, pingFrames,
                   cancelledWaiting>>

\* conn.go:144-159: make([]byte, payloadLength) (a negative length panics),
\* read the payload, unmask it, and return the Message.
ReadPayload(t) ==
    /\ pc[t] = "R_payload"
    /\ UNCHANGED acceptVars
    /\ IF payloadLength[t] < 0
       THEN /\ pc' = [pc EXCEPT ![t] = "panicked"]
            /\ rmx' = 0
            /\ UNCHANGED <<result, message, inbound, nreads, ioErr, header, payloadLength,
                           maskKey>>
       ELSE \E o \in ReadOutcomes(payloadLength[t]) :
            /\ inbound' = o.rest
            /\ nreads' = [nreads EXCEPT ![t] = @ + o.io]
            /\ ioErr' = [ioErr EXCEPT ![t] = StreamError(o.err)]
            /\ IF o.err
               THEN ReadFails(t, ErrConnectionRead)
               ELSE LET payload == IF IsMasked(header[t][2])
                                   THEN Unmask(o.buf, maskKey[t])
                                   ELSE o.buf
                    IN /\ pc' = [pc EXCEPT ![t] = "idle"]
                       /\ result' = [result EXCEPT ![t] =
                              ReadResult([Type |-> message[t].Type, Data |-> payload], ErrNil)]
                       /\ message' = [message EXCEPT ![t] = NilMessage]
                       /\ header' = [header EXCEPT ![t] = <<0, 0>>]
                       /\ payloadLength' = [payloadLength EXCEPT ![t] = 0]
                       /\ maskKey' = [maskKey EXCEPT ![t] = <<>>]
                       /\ rmx' = 0
    /\ UNCHANGED <<closed, wmx, pingMx, pingCtx, pingCancel, outbound, uclosed, sent,
                   ctxVars, cur, ccaller, wcaller, wmsg, pingVars, calls, nwrites, nwritten,
                   callClosed, callReading, closeErr, pongResolved, pingFrames, cancelledWaiting>>


\* ----------------------------------------------------------- Conn.Close
\* A Close that locks c.wmx first and c.rmx second.
CloseLockRMutant(t) ==
    /\ pc[t] = "C_rmx"
    /\ UNCHANGED acceptVars
    /\ IF wmx # t
       THEN /\ wmx = 0
            /\ wmx' = t
            /\ UNCHANGED <<rmx, pc>>
       ELSE /\ rmx = 0
            /\ rmx' = t
            /\ pc' = [pc EXCEPT ![t] = "C_body"]
            /\ UNCHANGED wmx
    /\ UNCHANGED <<closed, pingMx, pingCtx, pingCancel, streamVars, ctxVars,
                   cur, ccaller, wcaller, wmsg, readVars, pingVars, result, calls,
                   histVars>>

\* conn.go:37: c.rmx.Lock().
CloseLockR(t) ==
    /\ pc[t] = "C_rmx"
    /\ UNCHANGED acceptVars
    /\ rmx = 0
    /\ rmx' = t
    /\ pc' = [pc EXCEPT ![t] = "C_wmx"]
    /\ UNCHANGED <<closed, wmx, pingMx, pingCtx, pingCancel, streamVars, ctxVars,
                   cur, ccaller, wcaller, wmsg, readVars, pingVars, result, calls,
                   histVars>>

\* A Close that goes on without waiting for c.wmx.
CloseLockWMutant(t) ==
    /\ pc[t] = "C_wmx"
    /\ UNCHANGED acceptVars
    /\ wmx' = t
    /\ pc' = [pc EXCEPT ![t] = "C_body"]
    /\ UNCHANGED <<closed, rmx, pingMx, pingCtx, pingCancel, streamVars, ctxVars,
                   cur, ccaller, wcaller, wmsg, readVars, pingVars, result, calls,
                   histVars>>

\* conn.go:38: c.wmx.Lock().
CloseLockW(t) ==
    /\ pc[t] = "C_wmx"
    /\ UNCHANGED acceptVars
    /\ wmx = 0
    /\ wmx' = t
    /\ pc' = [pc EXCEPT ![t] = "C_body"]
    /\ UNCHANGED <<closed, rmx, pingMx, pingCtx, pingCancel, streamVars, ctxVars,
                   cur, ccaller, wcaller, wmsg, readVars, pingVars, result, calls,
                   histVars>>

\* A Close that flips c.closed.
ClosedAfterCloseMutant == ~closed

\* conn.go:41: c.closed = true.
ClosedAfterClose == TRUE

\* What c.underlying.Close() can return.
CloseOutcomes == {ErrNil, ErrUnderlyingClose}

\* conn.go:39-42: c.closed = true; return c.underlying.Close(); the deferred
\* Unlocks run.  Called from Read's 0x8 case (conn.go:90-91) the error is
\* dropped and Read goes on with message.Type = MessageClose.
CloseBody(t) ==
    /\ pc[t] = "C_body"
    /\ UNCHANGED acceptVars
    /\ closed' = ClosedAfterClose
    /\ uclosed' = TRUE
    /\ rmx' = 0
    /\ wmx' = 0
    /\ \E e \in CloseOutcomes :
        /\ closeErr' = e
        /\ IF ccaller[t] = "Read"
           THEN /\ message' = [message EXCEPT ![t].Type = MessageClose]
                /\ pc' = [pc EXCEPT ![t] = AfterDispatchPc(header[t][2])]
                /\ UNCHANGED result
           ELSE /\ pc' = [pc EXCEPT ![t] = "idle"]
                /\ result' = [result EXCEPT ![t] = CloseResult(e)]
                /\ UNCHANGED message
    /\ UNCHANGED <<pingMx, pingCtx, pingCancel, inbound, outbound, sent, ctxVars,
                   cur, ccaller, wcaller, wmsg, header, payloadLength, maskKey,
                   pingVars, calls, nreads, nwrites, nwritten, callClosed, callReading, ioErr,
                   pongResolved, pingFrames, cancelledWaiting>>

\* ----------------------------------------------------------- Conn.Write
\* A c.wmx.Lock() that never blocks.
WriteMayLockMutantFree == TRUE

\* A c.wmx.Lock() that also waits for c.rmx.
WriteMayLockMutantBoth == wmx = 0 /\ rmx = 0

\* conn.go:165: c.wmx.Lock() goes through once c.wmx is unlocked.
WriteMayLock == wmx = 0

\* conn.go:165: c.wmx.Lock().
WriteLock(t) ==
    /\ pc[t] = "W_lock"
    /\ UNCHANGED acceptVars
    /\ WriteMayLock
    /\ wmx' = t
    /\ pc' = [pc EXCEPT ![t] = "W_write"]
    /\ UNCHANGED <<closed, rmx, pingMx, pingCtx, pingCancel, streamVars, ctxVars,
                   cur, ccaller, wcaller, wmsg, readVars, pingVars, result, calls,
                   histVars>>

\* Whether one c.underlying.Write(frame) succeeds: never on a closed stream.
WriteOutcomes == IF uclosed THEN {FALSE} ELSE BOOLEAN

\* conn.go:209-213: the error Write returns.
WriteError(ok) == IF ok THEN ErrNil ELSE ErrConnectionWrite

\* conn.go:167-213: build the frame and hand it to c.underlying.Write in one
\* call; the deferred c.wmx.Unlock() runs.  Then the caller goes on: Read's
\* 0x9 case logs an error and sets message.Type (conn.go:97-100); Ping
\* returns (false, err) on an error, without unlocking c.pingMx
\* (conn.go:240-242), and unlocks it otherwise (conn.go:244).
WriteStream(t) ==
    /\ pc[t] = "W_write"
    /\ UNCHANGED acceptVars
    /\ \E ok \in WriteOutcomes :
        /\ outbound' = IF ok THEN Append(outbound, WriteFrame(wmsg[t])) ELSE outbound
        /\ ioErr' = [ioErr EXCEPT ![t] = StreamError(~ok)]
        /\ pingFrames' = IF ok /\ wcaller[t] = "Ping" THEN pingFrames + 1 ELSE pingFrames
        /\ nwritten' = [nwritten EXCEPT ![t] = IF ok THEN @ + 1 ELSE @]
        /\ CASE wcaller[t] = "Read" ->
                  /\ message' = [message EXCEPT ![t].Type = MessagePing]
                  /\ pc' = [pc EXCEPT ![t] = AfterDispatchPc(header[t][2])]
                  /\ UNCHANGED <<result, pingMx>>
             [] wcaller[t] = "Ping" ->
                  /\ IF ok
                     THEN /\ pingMx' = 0
                          /\ pc' = [pc EXCEPT ![t] = "P_done"]
                          /\ UNCHANGED result
                     ELSE /\ pc' = [pc EXCEPT ![t] = "idle"]
                          /\ result' = [result EXCEPT ![t] = PingResult(FALSE, WriteError(ok))]
                          /\ UNCHANGED pingMx
                  /\ UNCHANGED message
             [] OTHER ->
                  /\ pc' = [pc EXCEPT ![t] = "idle"]
                  /\ result' = [result EXCEPT ![t] = WriteResult(WriteError(ok))]
                  /\ UNCHANGED <<message, pingMx>>
    /\ wmx' = 0
    /\ nwrites' = [nwrites EXCEPT ![t] = @ + 1]
    /\ UNCHANGED <<closed, rmx, pingCtx, pingCancel, inbound, uclosed, sent, ctxVars,
                   cur, ccaller, wcaller, wmsg, header, payloadLength, maskKey,
                   pingVars, calls, nreads, callClosed, callReading, closeErr, pongResolved,
                   cancelledWaiting>>

\* ------------------------------------------------------------ Conn.Ping
\* A Ping that never looks at the marker.
NoPingOutstandingMutant == TRUE

\* conn.go:227: whether Ping records a new marker.
NoPingOutstanding == pingCtx = NilCtx

\* conn.go:226-244: c.pingMx.Lock().  With no marker: derive the context
\* (WithTimeout(Background, 5s) for a nil ctx, WithCancel(ctx) otherwise, done
\* at once when ctx is), record it in c.pingCtx / c.pingCancel and call
\* c.Write(ping), still holding c.pingMx.  With a marker: c.pingMx.Unlock().
PingLock(t) ==
    /\ pc[t] = "P_lock"
    /\ UNCHANGED acceptVars
    /\ pingMx = 0
    /\ IF NoPingOutstanding
       THEN /\ pingMx' = t
            /\ ctxParent' = [ctxParent EXCEPT ![nextCtx] =
                               IF arg[t] = NilCtx THEN Background ELSE arg[t]]
            /\ ctxErr' = [ctxErr EXCEPT ![nextCtx] =
                               IF arg[t] = NilCtx THEN ErrNone ELSE ctxErr[arg[t]]]
            /\ nextCtx' = nextCtx + 1
            /\ ctx' = [ctx EXCEPT ![t] = nextCtx]
            /\ pingCtx' = nextCtx
            /\ pingCancel' = nextCtx
            /\ first' = [first EXCEPT ![t] = TRUE]
            /\ wcaller' = [wcaller EXCEPT ![t] = "Ping"]
            /\ wmsg' = [wmsg EXCEPT ![t] = [Type |-> MessagePing, Data |-> <<>>]]
            /\ pc' = [pc EXCEPT ![t] = "W_lock"]
       ELSE /\ ctx' = [ctx EXCEPT ![t] = arg[t]]
            /\ pc' = [pc EXCEPT ![t] = "P_done"]
            /\ UNCHANGED <<pingMx, ctxVars, pingCtx, pingCancel, first, wcaller, wmsg>>
    /\ UNCHANGED <<closed, rmx, wmx, streamVars, cur, ccaller, readVars, arg, waitOn,
                   result, calls, histVars>>

\* conn.go:246, c.pingCtx.Done(): c.pingCtx is read without c.pingMx, so the
\* read sees the marker or the nil a Pong case stored; on nil the method
\* call is a nil dereference and the goroutine panics.
PingDone(t) ==
    /\ pc[t] = "P_done"
    /\ UNCHANGED acceptVars
    /\ IF pingCtx = NilCtx
       THEN /\ pc' = [pc EXCEPT ![t] = "panicked"]
            /\ UNCHANGED waitOn
       ELSE /\ waitOn' = [waitOn EXCEPT ![t] = pingCtx]
            /\ pc' = [pc EXCEPT ![t] = "P_wait"]
    /\ UNCHANGED <<connVars, streamVars, ctxVars, cur, ccaller, wcaller, wmsg,
                   readVars, arg, ctx, first, result, calls, histVars>>

\* A switch that reports a pong on a deadline.
PongReceivedMutantDeadline(e) ==
    CASE e = Canceled         -> TRUE
      [] e = DeadlineExceeded -> TRUE
      [] OTHER                -> FALSE

\* A switch with the two cases swapped.
PongReceivedMutantSwapped(e) ==
    CASE e = Canceled         -> FALSE
      [] e = DeadlineExceeded -> TRUE
      [] OTHER                -> FALSE

\* conn.go:248-254: the switch on ctx.Err().
PongReceived(e) ==
    CASE e = Canceled         -> TRUE
      [] e = DeadlineExceeded -> FALSE
      [] OTHER                -> FALSE

\* conn.go:246: the channel c.Done() is closed once the context is done.
Done(c) == ctxErr[c] # ErrNone

\* conn.go:246-254: the receive from Done() returns once the awaited context
\* is done; then Ping switches on the Err() of its own ctx (a nil ctx panics).
PingWait(t) ==
    /\ pc[t] = "P_wait"
    /\ UNCHANGED acceptVars
    /\ Done(waitOn[t])
    /\ IF ctx[t] = NilCtx
       THEN /\ pc' = [pc EXCEPT ![t] = "panicked"]
            /\ UNCHANGED result
       ELSE /\ pc' = [pc EXCEPT ![t] = "idle"]
            /\ result' = [result EXCEPT ![t] = PingResult(PongReceived(ctxErr[ctx[t]]), ErrNil)]
    /\ UNCHANGED <<connVars, streamVars, ctxVars, cur, ccaller, wcaller, wmsg,
                   readVars, pingVars, calls, histVars>>

\* -------------------------------------------------------- the environment
\* The peer sends one frame.  Bytes that arrive earlier only wait in the
\* stream, which nothing but a Read holding c.rmx looks at: the frame is taken
\* to arrive when a Read is waiting for bytes.
PeerSend ==
    /\ sent < MaxIn
    /\ UNCHANGED acceptVars
    /\ ~uclosed
    /\ Len(inbound) = 0
    /\ \E t \in Threads : pc[t] \in {"R_hdr", "R_len", "R_mask", "R_payload"}
    /\ \E f \in PeerFrames : inbound' = inbound \o f
    /\ sent' = sent + 1
    /\ UNCHANGED <<connVars, outbound, uclosed, ctxVars, pc, cur, ccaller, wcaller,
                   wmsg, readVars, pingVars, result, calls, histVars>>

\* Context c becomes done with cause e, and with it the contexts derived
\* from it that are not done yet.
Finish(c, e) ==
    [i \in CtxIds |->
        IF /\ ctxErr[i] = ErrNone
           /\ \/ i = c
              \/ i \in DerivedCtxs /\ i < nextCtx /\ ctxParent[i] = c
        THEN e ELSE ctxErr[i]]

\* A caller's context, handed to its Ping call, is cancelled by the caller or
\* reaches its deadline (conn_test.go:160, 168): before Ping looks at it, or
\* while Ping waits.  (Between the two nothing reads the context, so a
\* context finished there is one finished when the wait begins.)
CallerFinish(t, e) ==
    /\ cur[t] = "Ping"
    /\ UNCHANGED acceptVars
    /\ pc[t] \in {"P_lock", "P_wait"}
    /\ arg[t] = CallerCtx(t)
    /\ ctxErr[CallerCtx(t)] = ErrNone
    /\ ctxErr' = Finish(CallerCtx(t), e)
    /\ cancelledWaiting' =
          IF e = Canceled /\ pc[t] = "P_wait" /\ ctxErr[waitOn[t]] = ErrNone
          THEN cancelledWaiting \cup {t}
          ELSE cancelledWaiting
    /\ UNCHANGED <<connVars, streamVars, ctxParent, nextCtx, pc, cur, ccaller,
                   wcaller, wmsg, readVars, pingVars, result, calls, nreads,
                   nwrites, nwritten, callClosed, callReading, ioErr, closeErr, pongResolved,
                   pingFrames>>

CallerCancel(t) == CallerFinish(t, Canceled)

CallerDeadline(t) == CallerFinish(t, DeadlineExceeded)

\* conn.go:230: the five second timer of a context derived from a nil ctx fires.
Timer(d) ==
    /\ d < nextCtx
    /\ UNCHANGED acceptVars
    /\ ctxParent[d] = Background
    /\ ctxErr[d] = ErrNone
    /\ ctxErr' = Finish(d, DeadlineExceeded)
    /\ UNCHANGED <<connVars, streamVars, ctxParent, nextCtx, pc, cur, ccaller,
                   wcaller, wmsg, readVars, pingVars, result, calls, histVars>>

\* ---------------------------------------------------- the specifications
\* The steps goroutine t takes inside a call.
Step(t) ==
    \/ ReadLock(t) \/ ReadHeader(t) \/ ReadPong(t)
    \/ ReadLen(t) \/ ReadMask(t) \/ ReadPayload(t)
    \/ CloseLockR(t) \/ CloseLockW(t) \/ CloseBody(t)
    \/ WriteLock(t) \/ WriteStream(t)
    \/ PingLock(t) \/ PingDone(t) \/ PingWait(t)

Next ==
    \/ \E t \in Threads : CallRead(t)
    \/ \E t \in Threads : CallWrite(t)
    \/ \E t \in Threads : CallPing(t)
    \/ \E t \in Threads : CallClose(t)
    \/ \E t \in Threads : Step(t)
    \/ PeerSend
    \/ \E t \in Threads : CallerCancel(t)
    \/ \E t \in Threads : CallerDeadline(t)
    \/ \E d \in DerivedCtxs : Timer(d)

Spec == Init /\ [][Next]_vars

\* The Go scheduler runs every goroutine that can take a step, and a timer
\* that is armed fires.
FairSpec ==
    /\ Spec
    /\ \A t \in Threads : WF_vars(Step(t))
    /\ \A d \in DerivedCtxs : WF_vars(Timer(d))

\* ------------------------------------------- every header, one Read call
\* The bytes that follow the header in the stream: the next frame.
HeaderTail == <<129, 0>>

\* A Ping(nil) call of goroutine 1 timed out and left its marker, and the
\* Read call of goroutine 2 holds c.rmx; the peer's bytes have arrived:
\* any two header bytes and the frame after them.
HeaderInit ==
    /\ NoAcceptCall
    /\ closed = FALSE
    /\ rmx = 2
    /\ wmx = 0
    /\ pingMx = 0
    /\ pingCtx = MaxCalls + 1
    /\ pingCancel = MaxCalls + 1
    /\ \E b0 \in Byte, b1 \in Byte : inbound = <<b0, b1>> \o HeaderTail
    /\ outbound = << WriteFrame([Type |-> MessagePing, Data |-> <<>>]) >>
    /\ uclosed = FALSE
    /\ sent = 1
    /\ ctxErr = [i \in CtxIds |-> IF i = MaxCalls + 1 THEN DeadlineExceeded ELSE ErrNone]
    /\ ctxParent = [d \in DerivedCtxs |-> Background]
    /\ nextCtx = MaxCalls + 2
    /\ pc = [t \in Threads |-> IF t = 2 THEN "R_hdr" ELSE "idle"]
    /\ cur = [t \in Threads |-> IF t = 1 THEN "Ping" ELSE IF t = 2 THEN "Read" ELSE "none"]
    /\ ccaller = [t \in Threads |-> "top"]
    /\ wcaller = [t \in Threads |-> IF t = 1 THEN "Ping" ELSE "top"]
    /\ wmsg = [t \in Threads |->
                 IF t = 1 THEN [Type |-> MessagePing, Data |-> <<>>] ELSE NilMessage]
    /\ header = [t \in Threads |-> <<0, 0>>]
    /\ message = [t \in Threads |->
                    IF t = 2 THEN [Type |-> 0, Data |-> <<>>] ELSE NilMessage]
    /\ payloadLength = [t \in Threads |-> 0]
    /\ maskKey = [t \in Threads |-> <<>>]
    /\ arg = [t \in Threads |-> NilCtx]
    /\ ctx = [t \in Threads |-> IF t = 1 THEN MaxCalls + 1 ELSE NilCtx]
    /\ waitOn = [t \in Threads |-> IF t = 1 THEN MaxCalls + 1 ELSE NilCtx]
    /\ first = [t \in Threads |-> t = 1]
    /\ result = [t \in Threads |-> IF t = 1 THEN PingResult(FALSE, ErrNil) ELSE NoResult]
    /\ calls = 2
    /\ nreads = [t \in Threads |-> 0]
    /\ nwrites = [t \in Threads |-> IF t = 1 THEN 1 ELSE 0]
    /\ nwritten = [t \in Threads |-> IF t = 1 THEN 1 ELSE 0]
    /\ callClosed = [t \in Threads |-> FALSE]
    /\ callReading = [t \in Threads |-> FALSE]
    /\ closeErr = ErrNil
    /\ ioErr = [t \in Threads |-> StreamNil]
    /\ pongResolved = {}
    /\ pingFrames = 1
    /\ cancelledWaiting = {}

\* The Read call reads the header and dispatches on it.
HeaderNext == \E t \in Threads : ReadHeader(t)

HeaderSpec == HeaderInit /\ [][HeaderNext]_vars

\* ------------------------------------------ one Write, its frame read back
\* The payload lengths written: both sides of each limit of the header's
\* three forms.
CodecLengths == {0, 1, 125, 126, 127, 65535, 65536}

\* A payload of n bytes, no two neighbours alike.
Payload(n) == [i \in 1..n |-> (i * 7) % 256]

\* The Messages written: every type with every length.
CodecMessages ==
    { [Type |-> ty, Data |-> Payload(n)] :
        ty \in {MessageText, MessageBinary, MessageClose, MessagePing, MessagePong},
        n \in CodecLengths }

\* Goroutine 1 has called Write(m) on a new Conn.
CodecInit ==
    /\ NoAcceptCall
    /\ closed = FALSE
    /\ rmx = 0
    /\ wmx = 0
    /\ pingMx = 0
    /\ pingCtx = NilCtx
    /\ pingCancel = NilCtx
    /\ inbound = <<>>
    /\ outbound = <<>>
    /\ uclosed = FALSE
    /\ sent = 0
    /\ ctxErr = [i \in CtxIds |-> ErrNone]
    /\ ctxParent = [d \in DerivedCtxs |-> Background]
    /\ nextCtx = MaxCalls + 1
    /\ pc = [t \in Threads |-> IF t = 1 THEN "W_lock" ELSE "idle"]
    /\ cur = [t \in Threads |-> IF t = 1 THEN "Write" ELSE "none"]
    /\ ccaller = [t \in Threads |-> "top"]
    /\ wcaller = [t \in Threads |-> "top"]
    /\ \E m \in CodecMessages :
          wmsg = [t \in Threads |-> IF t = 1 THEN m ELSE NilMessage]
    /\ header = [t \in Threads |-> <<0, 0>>]
    /\ message = [t \in Threads |-> NilMessage]
    /\ payloadLength = [t \in Threads |-> 0]
    /\ maskKey = [t \in Threads |-> <<>>]
    /\ arg = [t \in Threads |-> NilCtx]
    /\ ctx = [t \in Threads |-> NilCtx]
    /\ waitOn = [t \in Threads |-> NilCtx]
    /\ first = [t \in Threads |-> FALSE]
    /\ result = [t \in Threads |-> NoResult]
    /\ calls = 1
    /\ nreads = [t \in Threads |-> 0]
    /\ nwrites = [t \in Threads |-> 0]
    /\ nwritten = [t \in Threads |-> 0]
    /\ callClosed = [t \in Threads |-> FALSE]
    /\ callReading = [t \in Threads |-> FALSE]
    /\ closeErr = ErrNil
    /\ ioErr = [t \in Threads |-> StreamNil]
    /\ pongResolved = {}
    /\ pingFrames = 0
    /\ cancelledWaiting = {}

\* The peer sends the Text or Binary frame it received back as it is (a
\* server's frame carries no mask): the bytes Write produced are the bytes
\* the next Read finds in the stream, all of them there.
Loopback ==
    /\ Len(outbound) = 1
    /\ UNCHANGED acceptVars
    /\ outbound[1][1] \in {128 + 1, 128 + 2}
    /\ sent = 0
    /\ Len(inbound) = 0
    /\ inbound' = outbound[1]
    /\ sent' = 1
    /\ UNCHANGED <<connVars, outbound, uclosed, ctxVars, pc, cur, ccaller, wcaller,
                   wmsg, readVars, pingVars, result, calls, histVars>>

\* The Write call runs, the peer echoes, and goroutine 2 calls Read.
CodecNext ==
    \/ \E t \in Threads : WriteLock(t)
    \/ \E t \in Threads : WriteStream(t)
    \/ Loopback
    \/ \E t \in Threads : CallRead(t)
    \/ \E t \in Threads : ReadLock(t)
    \/ \E t \in Threads : ReadHeader(t)
    \/ \E t \in Threads : ReadLen(t)
    \/ \E t \in Threads : ReadPayload(t)

CodecSpec == CodecInit /\ [][CodecNext]_vars

\* ------------------------------------------- one Read call, bytes waiting
\* Goroutine 1 has called Read on a new Conn and holds c.rmx; the peer's
\* bytes are in the stream.
ReadingInit(bytes) ==
    /\ NoAcceptCall
    /\ closed = FALSE
    /\ rmx = 1
    /\ wmx = 0
    /\ pingMx = 0
    /\ pingCtx = NilCtx
    /\ pingCancel = NilCtx
    /\ inbound = bytes
    /\ outbound = <<>>
    /\ uclosed = FALSE
    /\ sent = 1
    /\ ctxErr = [i \in CtxIds |-> ErrNone]
    /\ ctxParent = [d \in DerivedCtxs |-> Background]
    /\ nextCtx = MaxCalls + 1
    /\ pc = [t \in Threads |-> IF t = 1 THEN "R_hdr" ELSE "idle"]
    /\ cur = [t \in Threads |-> IF t = 1 THEN "Read" ELSE "none"]
    /\ ccaller = [t \in Threads |-> "top"]
    /\ wcaller = [t \in Threads |-> "top"]
    /\ wmsg = [t \in Threads |-> NilMessage]
    /\ header = [t \in Threads |-> <<0, 0>>]
    /\ message = [t \in Threads |->
                    IF t = 1 THEN [Type |-> 0, Data |-> <<>>] ELSE NilMessage]
    /\ payloadLength = [t \in Threads |-> 0]
    /\ maskKey = [t \in Threads |-> <<>>]
    /\ arg = [t \in Threads |-> NilCtx]
    /\ ctx = [t \in Threads |-> NilCtx]
    /\ waitOn = [t \in Threads |-> NilCtx]
    /\ first = [t \in Threads |-> FALSE]
    /\ result = [t \in Threads |-> NoResult]
    /\ calls = 1
    /\ nreads = [t \in Threads |-> 0]
    /\ nwrites = [t \in Threads |-> 0]
    /\ nwritten = [t \in Threads |-> 0]
    /\ callClosed = [t \in Threads |-> FALSE]
    /\ callReading = [t \in Threads |-> FALSE]
    /\ closeErr = ErrNil
    /\ ioErr = [t \in Threads |-> StreamNil]
    /\ pongResolved = {}
    /\ pingFrames = 0
    /\ cancelledWaiting = {}

\* --------------------------------------------- masked and unmasked frames
\* Mask keys: the key of conn_test.go:185, all bits set, none set, mixed.
MaskKeys == { <<1, 2, 3, 4>>, <<255, 255, 255, 255>>, <<0, 0, 0, 0>>,
             <<170, 85, 15, 240>> }

\* Payloads as they are on the wire: conn_test.go:185 ("test" masked with
\* 1 2 3 4), and payloads shorter and longer than the key.
WirePayloads == { <<>>, <<96>>, <<117, 103, 112, 112>>, <<1, 2, 3, 4, 5>>,
                 <<255, 0, 128, 127, 1, 254, 85>> }

\* Text frames with the mask bit set, and Binary frames with it clear.
MaskFrames ==
    { <<129, 128 + Len(p)>> \o k \o p : k \in MaskKeys, p \in WirePayloads }
    \cup { <<130, Len(p)>> \o p : p \in WirePayloads }

MaskInit == \E f \in MaskFrames : ReadingInit(f \o HeaderTail)

\* The Read call reads the header, the mask key if there is one, and the
\* payload.
MaskNext ==
    \/ \E t \in Threads : ReadHeader(t)
    \/ \E t \in Threads : ReadMask(t)
    \/ \E t \in Threads : ReadPayload(t)

MaskSpec == MaskInit /\ [][MaskNext]_vars

\* --------------------------------------------- frames arriving in pieces
\* Frames of every form: a short payload, a masked payload, a 16-bit and a
\* 64-bit extended length, a masked frame with an extended length.
PieceFrames ==
    { <<130, 3, 7, 8, 9>>,
      <<129, 130, 1, 2, 3, 4, 96, 97>>,
      <<130, 126, 0, 2, 7, 8>>,
      <<130, 127, 0, 0, 0, 0, 0, 0, 0, 2, 7, 8>>,
      <<129, 254, 0, 1, 1, 2, 3, 4, 96>> }

\* The stream hands a Read what has arrived (conn_test.go:21-27): the whole
\* frame and the frame after it, or the first bytes of the frame only.
PieceInit ==
    \E f \in PieceFrames :
        \/ ReadingInit(f \o HeaderTail)
        \/ \E k \in 1..(Len(f) - 1) : ReadingInit(SubSeq(f, 1, k))

PieceNext ==
    \/ \E t \in Threads : ReadHeader(t)
    \/ \E t \in Threads : ReadLen(t)
    \/ \E t \in Threads : ReadMask(t)
    \/ \E t \in Threads : ReadPayload(t)

PieceSpec == PieceInit /\ [][PieceNext]_vars

\* ------------------------------------------------- continuation frames
\* First bytes: opcode 0x0 with fin, opcode 0x0 without fin, Text, Binary.
ContinuationFirstBytes == {128, 0, 129, 130}

\* Frames with each first byte: every payload unmasked and masked with
\* every key, and a payload of two bytes behind a 16-bit extended length.
ContinuationFrames ==
    { <<b0, Len(p)>> \o p : b0 \in ContinuationFirstBytes, p \in WirePayloads }
    \cup { <<b0, 128 + Len(p)>> \o k \o p :
             b0 \in ContinuationFirstBytes, k \in MaskKeys, p \in WirePayloads }
    \cup { <<b0, 126, 0, 2, 7, 8>> : b0 \in ContinuationFirstBytes }

ContinuationInit == \E f \in ContinuationFrames : ReadingInit(f \o HeaderTail)

ContinuationNext ==
    \/ \E t \in Threads : ReadHeader(t)
    \/ \E t \in Threads : ReadLen(t)
    \/ \E t \in Threads : ReadMask(t)
    \/ \E t \in Threads : ReadPayload(t)

ContinuationSpec == ContinuationInit /\ [][ContinuationNext]_vars

\* -------------------------------------------- 64-bit extended lengths
\* The 8 bytes of an extended length: 0 to 3, and values with the top bit
\* set (2^63, 2^63 + 1, 0xC8 00 .. 00, 2^64 - 1).
ExtendedLengths ==
    { BigEndianPut(n, 8) : n \in 0..3 }
    \cup { <<128, 0, 0, 0, 0, 0, 0, 0>>, <<128, 0, 0, 0, 0, 0, 0, 1>>,
           <<200, 0, 0, 0, 0, 0, 0, 0>>,
           <<255, 255, 255, 255, 255, 255, 255, 255>> }

\* Text and Binary frames with a 64-bit extended length, unmasked and
\* masked, and three bytes after it.
LengthFrames ==
    { <<b0, 127>> \o e \o <<7, 8, 9>> : b0 \in {129, 130}, e \in ExtendedLengths }
    \cup { <<b0, 255>> \o e \o k \o <<7, 8, 9>> :
             b0 \in {129, 130}, e \in ExtendedLengths, k \in MaskKeys }

LengthInit == \E f \in LengthFrames : ReadingInit(f \o HeaderTail)

LengthNext ==
    \/ \E t \in Threads : ReadHeader(t)
    \/ \E t \in Threads : ReadLen(t)
    \/ \E t \in Threads : ReadMask(t)
    \/ \E t \in Threads : ReadPayload(t)

LengthSpec == LengthInit /\ [][LengthNext]_vars

\* ------------------------------------------------------------ the claims
\* Call t was a call of op and has returned.
Returned(t, op) == result[t].op = op

\* Call t ended in a panic of its goroutine.
Panicked(t) == pc[t] = "panicked"

\* Call t is a Ping that recorded the marker itself.
Recorder(t) == cur[t] = "Ping" /\ first[t]

\* Call t is a Ping that found a marker and began to wait on it.
Joiner(t) == cur[t] = "Ping" /\ ~first[t] /\ waitOn[t] # NilCtx

\* The ping call t takes part in: the one it recorded, or the one it joined.
PingOf(t) == IF first[t] THEN ctx[t] ELSE waitOn[t]

\* A Read decoded a Pong frame while the ping of call t was outstanding and
\* its deadline had not elapsed.
PongSeen(t) == PingOf(t) \in pongResolved

\* C1: a Read that decoded a Close frame goes on to return a Message of type
\* Close with a nil error, with the connection closed (flag set, underlying
\* stream closed); in particular the Read returns.
C1_ReadOfCloseFrameReturns ==
    \A t \in Threads :
        (cur[t] = "Read" /\ ccaller[t] = "Read")
            ~> (/\ Returned(t, "Read")
                /\ result[t].err = ErrNil
                /\ result[t].msg.Type = MessageClose
                /\ closed
                /\ uclosed)

\* C2: a Ping call that wrote its Ping frame, and whose ping a Read resolved
\* by decoding a Pong frame before the deadline, does not crash, and once it
\* has ended it has returned (true, nil).
C2_PingReturnsTrueOnPong ==
    \A t \in Threads :
        (Recorder(t) /\ PongSeen(t))
            => /\ ~Panicked(t)
               /\ pc[t] = "idle" => result[t] = PingResult(TRUE, ErrNil)

\* C3: between the recording of a marker and the next decoded Pong frame the
\* Ping calls write at most one Ping frame: only the call that recorded the
\* marker writes, and once its write has succeeded exactly one Ping frame
\* has been written, however many Ping calls overlap.
C3_OnePingFramePerOutstandingPing ==
    /\ pingFrames <= 1
    /\ \A t \in Threads :
          /\ (pc[t] \in {"W_lock", "W_write"} /\ wcaller[t] = "Ping")
                => (first[t] /\ pingCtx = ctx[t] /\ pingFrames = 0)
          /\ (cur[t] = "Ping" /\ ~first[t]) => nwrites[t] = 0
          /\ (/\ Recorder(t)
              /\ pingCtx = ctx[t]
              /\ pc[t] \notin {"P_lock", "W_lock", "W_write"}
              /\ result[t].err = ErrNil)
                => pingFrames = 1

\* C3 witness: two Ping calls overlap with no Pong frame decoded, the second
\* has joined the first, and one Ping frame is on the outbound stream.
C3_Witness ==
    \E t, u \in Threads :
        /\ Recorder(t) /\ ~Returned(t, "Ping")
        /\ Joiner(u) /\ waitOn[u] = ctx[t]
        /\ pingCtx = ctx[t]
        /\ pingFrames = 1
        /\ outbound = <<WriteFrame([Type |-> MessagePing, Data |-> <<>>])>>

\* C4: a Ping call that joined an outstanding ping and has ended reports the
\* outcome of that ping: (true, nil) if a Pong frame was decoded before the
\* deadline, (false, nil) if the deadline elapsed, whatever its own context.
C4_JoiningPingReportsOutcome ==
    \A t \in Threads :
        (Joiner(t) /\ pc[t] \in {"idle", "panicked"})
            => /\ PongSeen(t) => result[t] = PingResult(TRUE, ErrNil)
               /\ ctxErr[waitOn[t]] = DeadlineExceeded
                     => result[t] = PingResult(FALSE, ErrNil)

\* C5: a Write called after Close has returned performs no write on the
\* underlying stream and returns ConnectionClosed.
C5_WriteAfterCloseFailsFast ==
    \A t \in Threads :
        (cur[t] = "Write" /\ callClosed[t])
            => /\ nwrites[t] = 0
               /\ Returned(t, "Write") => result[t].err = ErrConnectionClosed

\* C6: a Read called after Close has returned performs no read on the
\* underlying stream and returns ConnectionClosed.
C6_ReadAfterCloseFailsFast ==
    \A t \in Threads :
        (cur[t] = "Read" /\ callClosed[t])
            => /\ nreads[t] = 0
               /\ pc[t] \in {"R_lock", "idle"}
               /\ pc[t] = "idle" =>
                     result[t] = ReadResult(NilMessage, ErrConnectionClosed)

\* C6 witness: a Read called on a closed connection has returned.
C6_Witness ==
    \E t \in Threads :
        /\ callClosed[t]
        /\ Returned(t, "Read")
        /\ uclosed

\* C7: the connection starts open, and no step of any Read, Write, Ping or
\* Close call takes the closed flag from true back to false.
C7_ClosedNeverReopens ==
    /\ closed = FALSE
    /\ [][closed => closed']_vars

\* C7 witness: the connection is closed, and a call made on the closed
\* connection has returned.
C7_Witness ==
    /\ closed
    /\ \E t \in Threads : callClosed[t] /\ result[t].op \in {"Close", "Write", "Read"}

\* C8 as stated: a Ping that returned true had its ping resolved by a decoded
\* Pong frame.
C8_TrueOnlyOnPong ==
    \A t \in Threads :
        (Returned(t, "Ping") /\ result[t].ok) => PongSeen(t)

\* C8: a Ping that returned true had its ping resolved by a decoded Pong
\* frame or had the context its caller passed cancelled; a Ping whose own
\* wait ended by its deadline returned false.
C8_TrueOnlyOnPongOrCancel ==
    \A t \in Threads :
        Returned(t, "Ping") =>
            /\ result[t].ok =>
                  \/ PongSeen(t)
                  \/ arg[t] # NilCtx /\ ctxErr[arg[t]] = Canceled
            /\ ctxErr[ctx[t]] = DeadlineExceeded => ~result[t].ok

\* C8 witness: a Ping returned true on its caller's cancellation, with no
\* Pong frame decoded at all.
C8_Witness ==
    \E t \in Threads :
        /\ result[t] = PingResult(TRUE, ErrNil)
        /\ pongResolved = {}
        /\ ctxErr[arg[t]] = Canceled

C10_PingTimesOut ==
    \A t \in Threads :
        (/\ Recorder(t)
         /\ ctxErr[ctx[t]] = DeadlineExceeded
         /\ ~PongSeen(t)
         /\ result[t].err = ErrNil)
            => /\ ~Panicked(t)
               /\ pc[t] = "idle" =>
                     (result[t] = PingResult(FALSE, ErrNil) /\ nwrites[t] = 1)

\* Call t is between Read's c.rmx.Lock() and its return: it is reading a
\* frame from the underlying stream.
ReadingFrame(t) ==
    /\ cur[t] = "Read"
    /\ pc[t] \notin {"idle", "R_lock", "panicked"}

\* Call t is between Write's c.wmx.Lock() and its return: it is writing a
\* frame to the underlying stream.
WritingFrame(t) == pc[t] = "W_write"

\* C11: no two calls are reading from the underlying stream at once and no
\* two calls are writing to it at once, whether the write is a Write call's,
\* the Pong write inside Read or the Ping frame write inside Ping: the call
\* that reads holds c.rmx and the call that writes holds c.wmx.
C11_ReadsAndWritesExclusive ==
    \A t, u \in Threads :
        /\ ReadingFrame(t) => rmx = t
        /\ WritingFrame(t) => wmx = t
        /\ (ReadingFrame(t) /\ ReadingFrame(u)) => t = u
        /\ (WritingFrame(t) /\ WritingFrame(u)) => t = u

\* C11 witness: Ping is writing its Ping frame while a Read that decoded a
\* Ping frame waits at c.wmx to write its Pong.
C11_Witness ==
    \E t, u \in Threads :
        /\ WritingFrame(t) /\ wcaller[t] = "Ping"
        /\ pc[u] = "W_lock" /\ wcaller[u] = "Read" /\ ReadingFrame(u)

\* C12: a Write call at c.wmx.Lock() goes on whenever c.wmx is unlocked,
\* whoever holds c.rmx, and a Write call that holds c.wmx completes: Write
\* never waits for the read lock.
C12_WriteIndependentOfRead ==
    \A t \in Threads :
        /\ (pc[t] = "W_lock" /\ wmx = 0) => ENABLED WriteLock(t)
        /\ pc[t] = "W_write" => ENABLED WriteStream(t)

\* C12 witness: a Write call that started while a Read was blocked waiting
\* for inbound bytes has returned with no error, and that Read is blocked
\* still.
C12_Witness ==
    \E t, u \in Threads :
        /\ callReading[t]
        /\ result[t] = WriteResult(ErrNil)
        /\ ReadBlocked(u)

\* C13: the closed flag and the underlying stream change only in the step
\* of a Close call that holds both c.rmx and c.wmx, while no other call is
\* reading or writing a frame; that step sets the flag, closes the stream,
\* and Close returns the error the stream's close returned.
C13_CloseUnderBothLocks ==
    [][/\ (closed' # closed \/ uclosed' # uclosed \/ closeErr' # closeErr)
            => \E t \in Threads : pc[t] = "C_body" /\ pc'[t] # "C_body"
       /\ \A t \in Threads :
            (pc[t] = "C_body" /\ pc'[t] # "C_body")
                => /\ rmx = t /\ wmx = t
                   /\ \A u \in Threads \ {t} : ~ReadingFrame(u) /\ ~WritingFrame(u)
                   /\ closed' /\ uclosed'
                   /\ pc'[t] = "idle"
                   /\ result'[t] = CloseResult(closeErr')]_vars

\* C13 witness: a Close called while a Read was blocked in the middle of a
\* frame has closed the connection after that Read returned its Message,
\* and has returned the error of the stream's close.
C13_Witness ==
    \E t, u \in Threads :
        /\ callReading[t]
        /\ result[t] = CloseResult(ErrUnderlyingClose)
        /\ closeErr = ErrUnderlyingClose
        /\ closed /\ uclosed
        /\ Returned(u, "Read") /\ result[u].err = ErrNil

\* The opcodes of the frames Write emits for the five message types.
WriteOpcodes == {1, 2, 8, 9, 10}

\* The bytes f are one whole unmasked frame: a first byte with fin set, no
\* RSV bit and an opcode Write emits; the length byte; the extended length
\* the length byte announces; and as many payload bytes as the length says.
WholeFrame(f) ==
    /\ Len(f) >= 2
    /\ f[1] \in {128 + o : o \in WriteOpcodes}
    /\ f[2] < 128
    /\ CASE f[2] < 126 -> Len(f) = 2 + f[2]
         [] f[2] = 126 -> Len(f) >= 4 /\ Len(f) = 4 + BigEndianValue(SubSeq(f, 3, 4))
         [] OTHER      -> Len(f) >= 10 /\ Len(f) = 10 + BigEndianValue(SubSeq(f, 3, 10))

\* C14: every call makes at most one write on the underlying stream, a
\* call whose write succeeded made exactly one, and every write that
\* succeeded (a Write call's, Ping's Ping frame, Read's Pong) put one whole
\* frame on the outbound stream: the stream is a sequence of whole frames.
C14_WholeFramesInSingleWrites ==
    /\ \A i \in 1..Len(outbound) : WholeFrame(outbound[i])
    /\ \A t \in Threads :
          /\ nwrites[t] <= 1
          /\ (Returned(t, "Write") /\ result[t].err = ErrNil) => nwrites[t] = 1
    /\ Len(outbound) <= Cardinality({t \in Threads : nwrites[t] = 1})

\* C14 witness: two writers ran at once and the outbound stream holds their
\* two frames, a Text frame with its payload and a Ping frame, in order.
C14_Witness ==
    \E t, u \in Threads :
        /\ result[t] = WriteResult(ErrNil)
        /\ Recorder(u) /\ nwrites[u] = 1
        /\ outbound = << WriteFrame([Type |-> MessagePing, Data |-> <<>>]),
                         WriteFrame([Type |-> MessageText, Data |-> <<97>>]) >>

\* Read call t decoded a Ping frame (opcode 0x9).
DecodedPing(t) == cur[t] = "Read" /\ wcaller[t] = "Read"

\* The number of frames in the sequence s that are equal to f.
Count(s, f) == Cardinality({i \in 1..Len(s) : s[i] = f})

\* C15: a Read that decoded a Ping frame makes one write, of one Pong frame
\* with an empty payload; whether that write succeeds or fails the Read
\* goes on with message type Ping, and when it returns it returns either a
\* read error of a later stream read or a Message of type Ping with a nil
\* error, never the error of the Pong write.
C15_PingFrameAnsweredByPong ==
    /\ [](\A t \in Threads :
            DecodedPing(t) =>
                /\ nwrites[t] = (IF pc[t] \in {"W_lock", "W_write"} THEN 0 ELSE 1)
                /\ Returned(t, "Read") =>
                      \/ result[t].err = ErrConnectionRead
                      \/ result[t].err = ErrNil /\ result[t].msg.Type = MessagePing)
    /\ [](Count(outbound, <<128 + 10, 0>>)
            <= Cardinality({t \in Threads : DecodedPing(t) /\ nwrites[t] = 1}))
    /\ [][\A t \in Threads :
            (DecodedPing(t) /\ pc[t] = "W_write" /\ pc'[t] # "W_write")
                => /\ \/ outbound' = outbound
                      \/ outbound' = Append(outbound, <<128 + 10, 0>>)
                   /\ message'[t].Type = MessagePing
                   /\ pc'[t] \in {"R_len", "R_mask", "R_payload"}]_vars

\* C15 witness: the Pong write of a Read that decoded a Ping frame failed
\* (nothing is on the outbound stream), and the Read returned the Ping
\* Message with a nil error.
C15_Witness ==
    \E t \in Threads :
        /\ DecodedPing(t)
        /\ nwrites[t] = 1
        /\ outbound = <<>>
        /\ result[t] = ReadResult([Type |-> MessagePing, Data |-> <<>>], ErrNil)

\* C16: a Read or Write call that returned after its stream call failed with
\* the error of an already closed stream returned ConnectionClosed.
C16_ClosedStreamErrorReported ==
    \A t \in Threads :
        (/\ Returned(t, "Read") \/ Returned(t, "Write")
         /\ ioErr[t] = StreamErrClosed)
            => result[t].err = ErrConnectionClosed

\* The first header byte b0 has fin = 0, or an RSV bit set, or an opcode
\* outside 0x0, 0x1, 0x2, 0x8, 0x9, 0xA.
Malformed(b0) ==
    \/ b0 < 128
    \/ (b0 \div 16) % 8 # 0
    \/ (b0 % 16) \notin {0, 1, 2, 8, 9, 10}

C18_ReadDecodesWhatWriteEncoded ==
    \A t \in Threads :
        (Returned(t, "Read") /\ result[t].err = ErrNil)
            => /\ \E w \in Threads :
                    /\ result[w] = WriteResult(ErrNil)
                    /\ wmsg[w].Type \in {MessageText, MessageBinary}
                    /\ result[t].msg.Type = wmsg[w].Type
                    /\ result[t].msg.Data = wmsg[w].Data
               /\ inbound = <<>>

\* C18 witness: a Binary Message of 126 bytes, the shortest with an extended
\* length, was written, echoed and read back.
C18_Witness ==
    \E t \in Threads :
        /\ Returned(t, "Read") /\ result[t].err = ErrNil
        /\ result[t].msg.Type = MessageBinary
        /\ Len(result[t].msg.Data) = 126
        /\ result[t].msg.Data[126] = (126 * 7) % 256

\* C19: in every frame Write put on the stream, for a payload of n bytes:
\* the second byte is n when n < 126; it is 126, followed by n as 2
\* big-endian bytes, when 126 <= n < 65536; it is 127, followed by n as 8
\* big-endian bytes, otherwise; and the payload follows the length field
\* unchanged and ends the frame.
C19_LengthEncoding ==
    \A w \in Threads :
        (cur[w] = "Write" /\ Len(outbound) = 1 /\ result[w] = WriteResult(ErrNil))
            => LET f == outbound[1]
                   d == wmsg[w].Data
                   n == Len(d)
                   h == IF n < 126 THEN 2 ELSE IF n < 65536 THEN 4 ELSE 10
               IN /\ Len(f) = h + n
                  /\ SubSeq(f, h + 1, h + n) = d
                  /\ n < 126 => f[2] = n
                  /\ (126 <= n /\ n < 65536) =>
                        (f[2] = 126 /\ f[3] = n \div 256 /\ f[4] = n % 256)
                  /\ n >= 65536 =>
                        /\ f[2] = 127
                        /\ f[3] = 0 /\ f[4] = 0 /\ f[5] = 0 /\ f[6] = 0
                        /\ f[7] = (n \div 16777216) % 256
                        /\ f[8] = (n \div 65536) % 256
                        /\ f[9] = (n \div 256) % 256
                        /\ f[10] = n % 256

\* C19 witness: a Close Message of 127 bytes was written, with second byte
\* 126 and the length 0x007F after it.
C19_Witness ==
    \E w \in Threads :
        /\ result[w] = WriteResult(ErrNil)
        /\ wmsg[w].Type = MessageClose
        /\ Len(wmsg[w].Data) = 127
        /\ Len(outbound) = 1
        /\ SubSeq(outbound[1], 2, 5) = <<126, 0, 127, 7>>

\* The opcode of each of the five message types.
OpcodeOf(ty) ==
    CASE ty = MessageText   -> 1
      [] ty = MessageBinary -> 2
      [] ty = MessageClose  -> 8
      [] ty = MessagePing   -> 9
      [] ty = MessagePong   -> 10

\* C20: the first byte of every frame Write put on the stream, for a Message
\* of type Text, Binary, Close, Ping or Pong, is 0x80 plus the opcode of the
\* type (fin set, no RSV bit), and the top bit of its second byte, the mask
\* bit, is 0.
C20_FirstByteAndNoMask ==
    \A w \in Threads :
        (cur[w] = "Write" /\ Len(outbound) = 1 /\ result[w] = WriteResult(ErrNil))
            => /\ outbound[1][1] = 128 + OpcodeOf(wmsg[w].Type)
               /\ outbound[1][2] < 128

\* C20 witness: a Pong Message was written; its frame starts with 0x8A.
C20_Witness ==
    \E w \in Threads :
        /\ result[w] = WriteResult(ErrNil)
        /\ wmsg[w].Type = MessagePong
        /\ Len(wmsg[w].Data) = 126
        /\ SubSeq(outbound[1], 1, 2) = <<138, 126>>

\* Bit k of the byte a.
Bit(a, k) == (a \div Pow2(k)) % 2

\* The byte x is the exclusive or of the bytes a and b: bit by bit, x has a
\* 1 where exactly one of a and b has.
IsXorOf(x, a, b) ==
    /\ x \in Byte
    /\ \A k \in 0..7 : Bit(x, k) = (Bit(a, k) + Bit(b, k)) % 2

\* C21: the mask key Read uses is the 4 bytes after the header, read only
\* when the mask bit is set; the data of the Message Read returns is, byte
\* i (from 0), the wire byte i XOR key byte i mod 4 when the mask bit is
\* set, and the wire payload itself when it is clear.
C21_UnmaskedData ==
    [][\A t \in Threads :
          /\ (pc[t] = "R_mask" /\ pc'[t] = "R_payload")
                => /\ IsMasked(header[t][2])
                   /\ maskKey'[t] = SubSeq(inbound, 1, 4)
          /\ (pc[t] = "R_payload" /\ pc'[t] = "idle" /\ result'[t].err = ErrNil)
                => LET n == payloadLength[t]
                       wire == SubSeq(inbound, 1, n)
                       data == result'[t].msg.Data
                   IN /\ Len(data) = n
                      /\ IF IsMasked(header[t][2])
                         THEN /\ nreads'[t] = 3
                              /\ \A i \in 0..(n - 1) :
                                    IsXorOf(data[i + 1], wire[i + 1],
                                            maskKey[t][(i % 4) + 1])
                         ELSE /\ nreads'[t] = 2
                              /\ maskKey[t] = <<>>
                              /\ data = wire]_vars

\* C21 witness: the frame of conn_test.go:185 was read: the payload
\* 0x75 0x67 0x70 0x70 under the key 1 2 3 4 is "test".
C21_Witness ==
    \E t \in Threads :
        /\ result[t] = ReadResult([Type |-> MessageText,
                                   Data |-> <<116, 101, 115, 116>>], ErrNil)
        /\ nreads[t] = 3
        /\ inbound = HeaderTail

\* AcceptHTTP returned.
Accepted == acceptPc = "done"

\* The key is empty after trimming: it holds nothing but white space.
BlankKey == \A i \in 1..Len(request.Key) : request.Key[i] \in AsciiSpace

\* The three checks pass.
ValidRequest ==
    /\ request.Upgrade = UpgradeWebsocket
    /\ request.Version = Version13
    /\ ~BlankKey

\* C22: AcceptHTTP returns ErrRequestNotWebsocket exactly when Upgrade is
\* not "websocket"; otherwise ErrVersionNotSupported exactly when the
\* version is not "13"; otherwise ErrKeyNotProvided exactly when the key is
\* empty after trimming; each of them with a nil connection; whatever the
\* Connection header holds.
C22_FirstFailingCheckDecides ==
    Accepted =>
        /\ (acceptResult.err = ErrRequestNotWebsocket)
              <=> (request.Upgrade # UpgradeWebsocket)
        /\ (acceptResult.err = ErrVersionNotSupported)
              <=> /\ request.Upgrade = UpgradeWebsocket
                  /\ request.Version # Version13
        /\ (acceptResult.err = ErrKeyNotProvided)
              <=> /\ request.Upgrade = UpgradeWebsocket
                  /\ request.Version = Version13
                  /\ BlankKey
        /\ ~ValidRequest => acceptResult.conn = "nil"
        /\ ValidRequest =>
              acceptResult.err \in {ErrNil, ErrHijackFailed}

\* C22 witness: a request with Upgrade "websocket", Connection "keep-alive",
\* version "14" and no key was refused for its version.
C22_Witness ==
    /\ Accepted
    /\ request.Upgrade = UpgradeWebsocket
    /\ request.Connection # ConnectionUpgrade
    /\ request.Connection # <<>>
    /\ request.Version = <<49, 52>>
    /\ request.Key = <<>>
    /\ acceptResult = [conn |-> "nil", err |-> ErrVersionNotSupported]

\* The three response headers and the status 101 are written.
HandshakeWritten ==
    /\ response.header.Upgrade = UpgradeWebsocket
    /\ response.header.Connection = ConnectionUpgrade
    /\ Len(response.header.SecWebSocketAccept) = 28
    /\ response.status = 101

\* C23: when the checks pass and the response writer is no http.Hijacker
\* or its Hijack fails, AcceptHTTP returns ErrHijackFailed and no
\* connection, with the response headers and the status 101 written; when a
\* check fails, no header and no status is ever written.
C23_HijackFailsAfterHandshake ==
    /\ (Accepted /\ ValidRequest
          /\ (~response.hijacker \/ response.hijackFails))
          => /\ acceptResult = [conn |-> "nil", err |-> ErrHijackFailed]
             /\ HandshakeWritten
             /\ ~response.hijacked
    /\ ~ValidRequest
          => /\ response.header = NoHeader
             /\ response.status = 0
             /\ ~response.hijacked

\* C23 witness: AcceptHTTP returned for the test's request and a response
\* writer whose Hijack fails.
C23_Witness ==
    /\ Accepted
    /\ ValidRequest
    /\ request.Key = TestKey
    /\ response.hijacker
    /\ response.hijackFails
    /\ acceptResult.err = ErrHijackFailed
    /\ response.status = 101

\* "s3pPLMBiTxaQ9kYGzzhZRbK+xOo="
TestAcceptKey ==
    <<115, 51, 112, 80, 76, 77, 66, 105, 84, 120, 97, 81, 57, 107, 89, 71, 122,
      122, 104, 90, 82, 98, 75, 43, 120, 79, 111, 61>>

\* The key without the white space around it.
TrimmedKey ==
    LET inside == { i \in 1..Len(request.Key) : request.Key[i] \notin AsciiSpace }
        lo == CHOOSE i \in inside : \A j \in inside : i <= j
        hi == CHOOSE i \in inside : \A j \in inside : j <= i
    IN IF inside = {} THEN <<>> ELSE SubSeq(request.Key, lo, hi)

\* C24: when AcceptHTTP returns a connection, the Sec-WebSocket-Accept
\* header it wrote is the base64 encoding of the SHA-1 digest of the
\* trimmed key followed by the uuid, whether the key has 24 bytes or not:
\* "s3pPLMBiTxaQ9kYGzzhZRbK+xOo=" for the key "dGhlIHNhbXBsZSBub25jZQ==",
\* "zwKd5BnoWxQ6GxTxxSmBSHGHX9M=" for the key "abc".
C24_AcceptKey ==
    (Accepted /\ acceptResult.err = ErrNil) =>
        LET accept == response.header.SecWebSocketAccept
        IN /\ accept = Base64Encode(Sha1Sum(TrimmedKey \o websocket_uuid))
           /\ TrimmedKey = TestKey => accept = TestAcceptKey
           /\ TrimmedKey = <<97, 98, 99>> =>
                 accept = <<122, 119, 75, 100, 53, 66, 110, 111, 87, 120, 81,
                            54, 71, 120, 84, 120, 120, 83, 109, 66, 83, 72,
                            71, 72, 88, 57, 77, 61>>

\* C24 witness: the request of accept_test.go:31-39 was accepted and the
\* header holds "s3pPLMBiTxaQ9kYGzzhZRbK+xOo=".
C24_Witness ==
    /\ Accepted
    /\ acceptResult = [conn |-> "Conn", err |-> ErrNil]
    /\ request.Key = TestKey
    /\ request.Connection = ConnectionUpgrade
    /\ Len(request.Key) = sec_websocket_key_noncesize
    /\ response.header.SecWebSocketAccept = TestAcceptKey
    /\ response.hijacked

\* Call t is a Ping that recorded the marker and returned (false, nil)
\* because the deadline of its context elapsed.
TimedOut(t) ==
    /\ Recorder(t)
    /\ pc[t] = "idle"
    /\ result[t] = PingResult(FALSE, ErrNil)
    /\ ctxErr[ctx[t]] = DeadlineExceeded

\* C25: once a Ping call has returned because its deadline elapsed, its
\* ping is no longer outstanding: the marker it recorded is gone, so the
\* next Ping call records a marker and writes a Ping frame of its own.
C25_NoPingOutstandingAfterTimeout ==
    \A t \in Threads : TimedOut(t) => pingCtx # ctx[t]

\* C26: every Ping call made with a nil context ends, and returns
\* (true, nil), (false, nil) or (false, a write error): it neither waits for
\* ever nor ends in a panic, whether a ping was outstanding, had timed out,
\* or not.
C26_PingWithoutContextReturns ==
    \A t \in Threads :
        (cur[t] = "Ping" /\ arg[t] = NilCtx)
            ~> /\ pc[t] = "idle"
               /\ result[t] \in { PingResult(TRUE, ErrNil),
                                  PingResult(FALSE, ErrNil),
                                  PingResult(FALSE, ErrConnectionWrite) }

\* C27: once a Ping call has returned a write error, it holds c.pingMx no
\* longer and the marker it recorded is gone, so that a later Ping and a
\* later Read of a Pong frame both get c.pingMx.
C27_FailedPingReleasesMarker ==
    \A t \in Threads :
        (Recorder(t) /\ pc[t] = "idle"
            /\ result[t] = PingResult(FALSE, ErrConnectionWrite))
            => /\ pingMx # t
               /\ pingCtx # ctx[t]

\* The step takes the first n bytes off the stream.
Consumes(n) ==
    /\ n <= Len(inbound)
    /\ inbound' = SubSeq(inbound, n + 1, Len(inbound))

\* C28: a Read that returns a Message took from the stream, for the
\* payload, exactly as many bytes as the frame announces, and the Message's
\* data are those bytes (unmasked when the mask bit is set), also when the
\* stream holds fewer bytes than the read asks for.
C28_ReadConsumesWholeFrame ==
    [][\A t \in Threads :
          (pc[t] = "R_payload" /\ pc'[t] = "idle" /\ result'[t].err = ErrNil)
              => /\ Consumes(payloadLength[t])
                 /\ Len(result'[t].msg.Data) = payloadLength[t]
                 /\ \A i \in 1..payloadLength[t] :
                       result'[t].msg.Data[i] =
                           IF IsMasked(header[t][2])
                           THEN Xor(inbound[i], maskKey[t][((i - 1) % 4) + 1])
                           ELSE inbound[i]]_vars

\* C29: a Read call that returned an error put no frame on the stream and
\* did not call Close.
C29_FailedReadHasNoEffect ==
    \A t \in Threads :
        (cur[t] = "Read" /\ pc[t] = "idle" /\ result[t].err # ErrNil)
            => /\ nwritten[t] = 0
               /\ ccaller[t] = "top"

\* C30: a Close call does not wait for a call that is blocked inside Read:
\* while a Read waits for bytes that have not arrived, a Close call at its
\* first lock can go on (and so returns though the bytes never arrive).
C30_CloseNotBlockedByRead ==
    \A t, u \in Threads :
        (cur[t] = "Close" /\ ccaller[t] = "top" /\ pc[t] = "C_rmx"
            /\ ReadBlocked(u))
            => ENABLED CloseLockR(t)

\* Call t stands at c.rmx.Lock() (conn.go:37, 49).
WantsRmx(t) == pc[t] \in {"R_lock", "C_rmx"}

\* Call t stands at c.pingMx.Lock() (conn.go:102, 226).
WantsPingMx(t) == pc[t] \in {"R_pong", "P_lock"}

\* Call t stands at c.wmx.Lock() (conn.go:38, 165).
WantsWmx(t) == pc[t] \in {"C_wmx", "W_lock"}

\* Call t waits for a lock that the other call u holds.
WaitsFor(t, u) ==
    /\ t # u
    /\ \/ WantsRmx(t) /\ rmx = u
       \/ WantsPingMx(t) /\ pingMx = u
       \/ WantsWmx(t) /\ wmx = u

\* C31: a call that holds c.wmx stands at the Lock() of neither c.rmx nor
\* c.pingMx, and a call that holds c.pingMx does not stand at the Lock() of
\* c.rmx; and there is no set of calls each of which waits for a lock that
\* another call of the set holds.
C31_LockOrder ==
    /\ \A t \in Threads :
        /\ wmx = t => ~WantsRmx(t) /\ ~WantsPingMx(t)
        /\ pingMx = t => ~WantsRmx(t)
    /\ \A S \in SUBSET Threads :
        S # {} => \E t \in S : \A u \in S : ~WaitsFor(t, u)

\* C31 witness: a Ping call holds c.pingMx and c.wmx and is writing its
\* frame, while a Read call that holds c.rmx and decoded a Pong frame waits
\* for c.pingMx.
C31_Witness ==
    \E t, u \in Threads :
        /\ pc[t] = "W_write" /\ wcaller[t] = "Ping"
        /\ pingMx = t /\ wmx = t
        /\ pc[u] = "R_pong" /\ rmx = u
        /\ WaitsFor(u, t)

\* C32: a frame whose first byte is 0x80 (fin set, RSV bits clear, opcode
\* 0x0) is not rejected: when the stream does not fail, Read goes on past
\* the header with the Message's type left at its zero value, and returns a
\* nil error and a Message of that type, which is the value of Text, whose
\* data is the decoded payload.
C32_ContinuationIsData ==
    [][\A t \in Threads :
          /\ (pc[t] = "R_hdr" /\ Len(inbound) >= 2 /\ inbound[1] = 128
                /\ ioErr'[t] = StreamNil)
                => /\ pc'[t] \in {"R_len", "R_mask", "R_payload"}
                   /\ message'[t].Type = 0
          /\ (pc[t] = "R_payload" /\ header[t][1] = 128 /\ ioErr'[t] = StreamNil)
                => /\ pc'[t] = "idle"
                   /\ result'[t].op = "Read"
                   /\ result'[t].err = ErrNil
                   /\ result'[t].msg.Type = 0
                   /\ result'[t].msg.Type = MessageText
                   /\ Len(result'[t].msg.Data) = payloadLength[t]
                   /\ \A i \in 1..payloadLength[t] :
                         IF IsMasked(header[t][2])
                         THEN IsXorOf(result'[t].msg.Data[i], inbound[i],
                                      maskKey[t][((i - 1) % 4) + 1])
                         ELSE result'[t].msg.Data[i] = inbound[i]]_vars

\* C32 witness: the frame 80 84 01 02 03 04 75 67 70 70 was read: Read
\* returned "test" with the type's zero value.
C32_Witness ==
    \E t \in Threads :
        /\ result[t] = ReadResult([Type |-> 0, Data |-> <<116, 101, 115, 116>>],
                                  ErrNil)
        /\ nreads[t] = 3
        /\ ioErr[t] = StreamNil
        /\ inbound = HeaderTail

\* C33: whatever the 8 bytes of an extended length are, the payload length
\* Read uses is not negative, and the Read call does not end in a panic.
C33_LengthNeverNegative ==
    \A t \in Threads :
        cur[t] = "Read" => /\ payloadLength[t] >= 0
                           /\ ~Panicked(t)

====
